---- MODULE Spec2Model ----
(***************************************************************************)
(* A model of the ArduPilot binary flight-log decoder:                     *)
(*   src/src/bussines_logic/bin_log_parser.py   BinLogParser               *)
(*   src/src/utils/utils.py                     find_valid_sync_positions, *)
(*                                              split_ranges               *)
(*   src/src/bussines_logic/controller.py       ParallelBinDecoder         *)
(*                                                                         *)
(* A log is a sequence of bytes (0..255).  Python offsets are 0-based, so  *)
(* the byte at offset p of buf is buf[p + 1].  ASCII strings are kept as   *)
(* the sequences of their character codes, which is what the parser reads  *)
(* from the file.                                                          *)
(***************************************************************************)
EXTENDS Integers, Sequences, FiniteSets, Bags, TLC

\* ------------------------------------------------------------------ bounds
\* Number of data chunks that follow the FMT prefix of a generated log.
MaxFrames == 2
\* Largest worker count (num_workers) a run is started with.
MaxWorkers == 3
\* Largest sync offset handed to split_ranges on its own.
MaxOffset == 5
\* Largest num_parts handed to split_ranges on its own (the smallest is -1).
MaxParts == 4
MaxFormatLen == 3

\* --------------------------------------------------------- program constants
FMT_TYPE_ID == 128
FMT_MESSAGE_LENGTH == 89
SYNC_MARKER == <<163, 149>>
FMT_HEADER == <<163, 149, 128>>

\* ------------------------------------------------------------ bytes, slices
MinOf(a, b) == IF a <= b THEN a ELSE b
MaxOf(a, b) == IF a >= b THEN a ELSE b

\* mapped_log[p]
ByteAt(buf, p) == buf[p + 1]

\* mapped_log[a:b] (a slice never raises; it is clipped to the buffer)
Slice(buf, a, b) == SubSeq(buf, a + 1, MinOf(b, Len(buf)))

MatchAt(buf, sub, i) == \A j \in 1..Len(sub) : buf[i + j] = sub[j]

RECURSIVE FindFrom(_, _, _, _)
FindFrom(buf, sub, i, last) ==
    IF i > last THEN -1
    ELSE IF MatchAt(buf, sub, i) THEN i
    ELSE FindFrom(buf, sub, i + 1, last)

\* mmap.find(sub, start, end): the lowest offset i >= start at which sub
\* occurs entirely before end, or -1.
Find(buf, sub, start, end) ==
    FindFrom(buf, sub, start, MinOf(end, Len(buf)) - Len(sub))

RECURSIVE Flatten(_)
Flatten(ss) == IF ss = <<>> THEN <<>> ELSE Head(ss) \o Flatten(Tail(ss))

\* -------------------------------------------------------------- ASCII text
\* bytes.decode("ascii", "ignore"): bytes >= 128 are dropped.
DecodeAsciiIgnore(bs) == SelectSeq(bs, LAMBDA b : b < 128)

RECURSIVE LStripNul(_)
LStripNul(s) == IF s # <<>> /\ Head(s) = 0 THEN LStripNul(Tail(s)) ELSE s

RECURSIVE RStripNul(_)
RStripNul(s) ==
    IF s # <<>> /\ s[Len(s)] = 0 THEN RStripNul(SubSeq(s, 1, Len(s) - 1)) ELSE s

\* str.strip("\x00")
StripNul(s) == RStripNul(LStripNul(s))

IsAlnum(c) == (c >= 48 /\ c <= 57) \/ (c >= 65 /\ c <= 90) \/ (c >= 97 /\ c <= 122)

AllAlnum(s) == s # <<>> /\ \A i \in 1..Len(s) : IsAlnum(s[i])

\* re.match(r"^[A-Za-z0-9]+$", s): "$" also matches before one final newline.
NameMatches(s) ==
    \/ AllAlnum(s)
    \/ Len(s) >= 2 /\ s[Len(s)] = 10 /\ AllAlnum(SubSeq(s, 1, Len(s) - 1))

\* re.split(r"\x00{2,}", s)[0]: the text before the first run of two NULs.
RECURSIVE BeforeDoubleNul(_)
BeforeDoubleNul(s) ==
    IF s = <<>> THEN <<>>
    ELSE IF Len(s) >= 2 /\ s[1] = 0 /\ s[2] = 0 THEN <<>>
    ELSE <<Head(s)>> \o BeforeDoubleNul(Tail(s))

\* str.split(","): the pieces between commas, empty pieces included.
RECURSIVE SplitComma(_, _)
SplitComma(s, cur) ==
    IF s = <<>> THEN <<cur>>
    ELSE IF Head(s) = 44 THEN <<cur>> \o SplitComma(Tail(s), <<>>)
    ELSE SplitComma(Tail(s), Append(cur, Head(s)))

\* BinLogParser._extract_field_names
ExtractFieldNames(raw) ==
    LET decoded == DecodeAsciiIgnore(raw)
        cleaned == SelectSeq(StripNul(BeforeDoubleNul(decoded)), LAMBDA c : c # 32)
    IN  SelectSeq(SplitComma(cleaned, <<>>), LAMBDA n : n # <<>>)

\* ------------------------------------------------- configured type alphabet
\* config.parser.ardu_to_struct: format character -> primitive code.
\* 'B' uint8, 'I' uint32, 'L' int32 (scaled), 'n' char[4], 'N' char[16],
\* 'Z' char[64]; any other character maps to the empty code and contributes
\* no bytes.
ArduToStruct(ch) ==
    CASE ch = 66  -> <<"B">>
      [] ch = 73  -> <<"I">>
      [] ch = 110 -> <<"4s">>
      [] ch = 78  -> <<"16s">>
      [] ch = 90  -> <<"64s">>
      [] ch = 76  -> <<"i">>
      [] OTHER    -> <<>>

\* size in bytes of one primitive code under "<" (no padding)
CodeSize(code) ==
    CASE code = "B"   -> 1
      [] code = "I"   -> 4
      [] code = "i"   -> 4
      [] code = "4s"  -> 4
      [] code = "16s" -> 16
      [] code = "64s" -> 64

\* BinLogParser._convert_to_struct_format: the codes after the leading "<"
RECURSIVE ConvertToStructFormat(_)
ConvertToStructFormat(ardu_format) ==
    IF ardu_format = <<>> THEN <<>>
    ELSE ArduToStruct(Head(ardu_format)) \o ConvertToStructFormat(Tail(ardu_format))

\* struct.calcsize
RECURSIVE CalcSize(_)
CalcSize(codes) ==
    IF codes = <<>> THEN 0 ELSE CodeSize(Head(codes)) + CalcSize(Tail(codes))

\* ------------------------------------------------------------------ parser
\* A parser object: its registry, its warning list (None when collection was
\* not requested) and the exception, if any, that left the running method.
NewParser(format_definitions, collect) ==
    [fmt_definitions |-> format_definitions,
     collect_warnings |-> collect,
     warnings |-> <<>>,
     error |-> "none"]

\* self.warnings.append(w): self.warnings is None unless collect_warnings.
WarnAppend(p, w) ==
    IF p.collect_warnings
    THEN [p EXCEPT !.warnings = Append(@, w)]
    ELSE [p EXCEPT !.error = "AttributeError"]

\* an entry written over an existing one keeps the compiled layout of the old
RegistryPut_KeepLayout(reg, id, d) ==
    [i \in (DOMAIN reg) \cup {id} |->
        IF i # id THEN reg[i]
        ELSE IF id \in DOMAIN reg THEN [d EXCEPT !.struct_obj = reg[id].struct_obj]
        ELSE d]

\* an id that has an entry keeps it
RegistryPut_FirstWins(reg, id, d) ==
    [i \in (DOMAIN reg) \cup {id} |-> IF i \in DOMAIN reg THEN reg[i] ELSE d]

\* self.fmt_definitions[msg_type_id] = {...}
RegistryPut(reg, id, d) ==
    [i \in (DOMAIN reg) \cup {id} |-> IF i = id THEN d ELSE reg[i]]

EmptyRegistry == [i \in {} |-> 0]

\* BinLogParser._parse_fmt_message: the parser afterwards, and the result.
ParseFmtMessage(p, buf, offset) ==
    IF offset + 3 >= Len(buf)
    THEN \* mapped_log[offset + 3] raises IndexError; the handler warns
         [parser |-> WarnAppend(p, [kind |-> "BadFMT", off |-> offset]), ok |-> FALSE]
    ELSE
      LET msg_type_id == ByteAt(buf, offset + 3)
          msg_name == StripNul(DecodeAsciiIgnore(Slice(buf, offset + 5, offset + 9)))
      IN  IF ~NameMatches(msg_name)
          THEN [parser |-> p, ok |-> FALSE]
          ELSE
            LET ardu_format ==
                    StripNul(DecodeAsciiIgnore(Slice(buf, offset + 9, offset + 25)))
                field_names == ExtractFieldNames(Slice(buf, offset + 25, offset + 89))
                struct_format == ConvertToStructFormat(ardu_format)
                d == [id |-> msg_type_id,
                      name |-> msg_name,
                      ardu_format |-> ardu_format,
                      field_names |-> field_names,
                      struct_fmt |-> struct_format,
                      struct_size |-> CalcSize(struct_format),
                      message_length |-> ByteAt(buf, offset + 4),
                      struct_obj |-> FALSE]
            IN  [parser |-> [p EXCEPT !.fmt_definitions = RegistryPut(@, msg_type_id, d)],
                 ok |-> TRUE]

\* BinLogParser._find_fmt_offsets together with the loop of
\* preload_fmt_messages that consumes it: parse every FMT start from position.
RECURSIVE PreloadFrom(_, _, _)
PreloadFrom(p, buf, position) ==
    IF position >= Len(buf) THEN p
    ELSE LET next_fmt_offset == Find(buf, FMT_HEADER, position, Len(buf))
         IN  IF next_fmt_offset = -1 THEN p
             ELSE LET r == ParseFmtMessage(p, buf, next_fmt_offset)
                  IN  IF r.parser.error # "none" THEN r.parser
                      ELSE PreloadFrom(r.parser, buf, next_fmt_offset + FMT_MESSAGE_LENGTH)

\* struct.calcsize(struct_fmt) does not raise struct.error: every code of the
\* format is one the struct module knows
Compiles(codes) ==
    \A i \in 1..Len(codes) : codes[i] \in {"B", "I", "i", "4s", "16s", "64s"}

\* BinLogParser._validate_fmt_definitions: the descriptors it logs a warning
\* for.  It writes to the logger only and changes nothing.
ValidateFmtDefinitions(reg) ==
    {i \in DOMAIN reg :
        \/ ~Compiles(reg[i].struct_fmt)
        \/ CalcSize(reg[i].struct_fmt) # reg[i].struct_size
        \/ CalcSize(reg[i].struct_fmt) > reg[i].message_length - 3}

\* BinLogParser.preload_fmt_messages
PreloadFmtMessages(p, buf) == PreloadFrom(p, buf, 0)

\* _build_struct_objects / build_structs_for_local_use: attach the compiled
\* layout to every descriptor.
BuildStructObjects(reg) == [i \in DOMAIN reg |-> [reg[i] EXCEPT !.struct_obj = TRUE]]

\* ---------------------------------------------------------------- decoding
\* Decoded values are kept as [kind, val].  An integer n is the pair
\* <<n \div 65536, n % 65536>>, so that all 32 bits of a field fit; a byte
\* blob or a string is its bytes; a scaled number n * scale_factors[c] is the
\* pair of n followed by c.
IntVal(hi, lo) == [kind |-> "int", val |-> <<hi, lo>>]

\* two little-endian bytes as an unsigned integer
LE16(buf, off) == ByteAt(buf, off) + 256 * ByteAt(buf, off + 1)

UnpackOne(code, buf, off) ==
    CASE code = "B" -> IntVal(0, ByteAt(buf, off))
      [] code = "I" -> IntVal(LE16(buf, off + 2), LE16(buf, off))
      [] code = "i" -> IntVal(IF ByteAt(buf, off + 3) >= 128
                              THEN LE16(buf, off + 2) - 65536
                              ELSE LE16(buf, off + 2),
                              LE16(buf, off))
      [] OTHER      -> [kind |-> "bytes", val |-> Slice(buf, off, off + CodeSize(code))]

\* struct_obj.unpack_from(mapped_log, payload_start) as a list
RECURSIVE UnpackValues(_, _, _)
UnpackValues(codes, buf, off) ==
    IF codes = <<>> THEN <<>>
    ELSE <<UnpackOne(Head(codes), buf, off)>>
            \o UnpackValues(Tail(codes), buf, off + CodeSize(Head(codes)))

\* config.parser.scale_factors: the format characters that carry a factor
HasScaleFactor(ch) == ch = 76

\* BinLogParser._apply_scaling: zip(values, ardu_format) pairs the i-th value
\* with the i-th format character and stops at the shorter of the two.
ApplyScaling(values, ardu_format) ==
    [i \in 1..MinOf(Len(values), Len(ardu_format)) |->
        IF HasScaleFactor(ardu_format[i]) /\ values[i].kind = "int"
        THEN [kind |-> "float", val |-> Append(values[i].val, ardu_format[i])]
        ELSE values[i]]

\* the dictionary keys "message_type" and "TimeUS"
KeyMessageType == <<109, 101, 115, 115, 97, 103, 101, 95, 116, 121, 112, 101>>
KeyTimeUS == <<84, 105, 109, 101, 85, 83>>
NameFMT == <<70, 77, 84>>

StrVal(s) == [kind |-> "str", val |-> s]

\* a message built from its names and values only when they are as many
BuildMessageAsDict_Strict(d, values) ==
    [k \in (IF Len(d.field_names) = Len(values)
            THEN {d.field_names[i] : i \in 1..Len(values)} ELSE {})
           \cup {KeyMessageType} |->
        IF k = KeyMessageType THEN StrVal(d.name)
        ELSE values[CHOOSE i \in 1..Len(values) : d.field_names[i] = k]]

\* BinLogParser._build_message_as_dict: dict(zip(field_names, values)), then
\* message_type, then every bytes value decoded to a string.
BuildMessageAsDict(d, values) ==
    LET n == MinOf(Len(d.field_names), Len(values))
        keys == {d.field_names[i] : i \in 1..n}
        last(k) == CHOOSE i \in 1..n :
                      /\ d.field_names[i] = k
                      /\ \A j \in 1..n : d.field_names[j] = k => j <= i
        text(v) == IF v.kind = "bytes"
                   THEN StrVal(StripNul(DecodeAsciiIgnore(v.val)))
                   ELSE v
    IN  [k \in keys \cup {KeyMessageType} |->
            IF k = KeyMessageType THEN StrVal(d.name) ELSE text(values[last(k)])]

\* BinLogParser._decode_single_message: the parser afterwards and the message
\* (has = FALSE for None).
DecodeSingleMessage(p, d, buf, position, end_offset) ==
    LET payload_start == position + 3
        payload_end == payload_start + d.struct_size
        none(q) == [parser |-> q, has |-> FALSE, msg |-> <<>>]
    IN  IF payload_end > end_offset
        THEN none(WarnAppend(p, [kind |-> "Truncated", off |-> position]))
        ELSE IF payload_start + CalcSize(d.struct_fmt) > Len(buf)
        THEN \* unpack_from raises struct.error, which is caught
             none(WarnAppend(p, [kind |-> "Unpack", off |-> position]))
        ELSE
          LET unpacked_values == UnpackValues(d.struct_fmt, buf, payload_start)
              scaled_values == ApplyScaling(unpacked_values, d.ardu_format)
              q == IF Len(scaled_values) # Len(d.field_names)
                   THEN WarnAppend(p, [kind |-> "FieldCount", off |-> position])
                   ELSE p
          IN  IF q.error # "none"
              THEN none(q)
              ELSE [parser |-> q, has |-> TRUE, msg |-> BuildMessageAsDict(d, scaled_values)]

\* BinLogParser._find_next_message (-1 for None)
FindNextMessage(buf, position, end_offset) ==
    LET next_sync_position == Find(buf, SYNC_MARKER, position, end_offset)
    IN  IF next_sync_position = -1 \/ next_sync_position + 3 >= end_offset
        THEN -1
        ELSE next_sync_position

\* the unknown-id branch moving past the three header bytes and one more
UnknownIdAdvance_PastHeader(position) == position + 4

\* "position += 1" of the unknown-id branch of parse_messages_in_range
UnknownIdAdvance(position) == position + 1

\* "if message_id == FMT_TYPE_ID", with the test dropped
IsFmtFrame_Never(message_id) == FALSE

\* the test "message_id == FMT_TYPE_ID" of parse_messages_in_range
IsFmtFrame(message_id) == message_id = FMT_TYPE_ID

\* A message filter is None or a set of names; None and the empty set are
\* both false in "if message_filter and ...".
NoFilter == [present |-> FALSE, names |-> {}]
FilterOf(S) == [present |-> TRUE, names |-> S]
Truthy(message_filter) == message_filter.present /\ message_filter.names # {}

\* a decode that starts with an empty warning list
ParseStart_ClearWarnings(p, start_offset) ==
    [parser |-> [p EXCEPT !.warnings = <<>>], position |-> start_offset, out |-> <<>>,
     done |-> FALSE]

\* The state of one run of parse_messages_in_range: the parser, the scan
\* position, the messages yielded so far (each with the offset of its frame)
\* and whether the loop has ended.
ParseStart(p, start_offset) ==
    [parser |-> p, position |-> start_offset, out |-> <<>>, done |-> FALSE]

\* One iteration of the while loop of parse_messages_in_range.
ParseIter(st, buf, end_offset, message_filter) ==
    LET next_message_offset == FindNextMessage(buf, st.position, end_offset)
    IN  IF next_message_offset = -1
        THEN [st EXCEPT !.done = TRUE]
        ELSE
          LET position == next_message_offset
              message_id == ByteAt(buf, position + 2)
              reg == st.parser.fmt_definitions
          IN  IF IsFmtFrame(message_id)
              THEN [st EXCEPT !.position = position + FMT_MESSAGE_LENGTH]
              ELSE IF message_id \notin DOMAIN reg \/ ~reg[message_id].struct_obj
              THEN LET q == WarnAppend(st.parser, [kind |-> "UnknownId", off |-> position])
                   IN  [st EXCEPT !.parser = q,
                                  !.position = UnknownIdAdvance(position),
                                  !.done = (q.error # "none")]
              ELSE IF Truthy(message_filter)
                       /\ reg[message_id].name \notin message_filter.names
              THEN [st EXCEPT !.position = position + reg[message_id].message_length]
              ELSE
                LET r == DecodeSingleMessage(st.parser, reg[message_id], buf,
                                             position, end_offset)
                IN  IF r.parser.error # "none"
                    THEN [st EXCEPT !.parser = r.parser, !.position = position,
                                    !.done = TRUE]
                    ELSE [st EXCEPT
                            !.parser = r.parser,
                            !.position = position + reg[message_id].message_length,
                            !.out = IF r.has
                                    THEN Append(@, [msg |-> r.msg, off |-> position])
                                    ELSE @]

RECURSIVE ParseLoop(_, _, _, _)
ParseLoop(st, buf, end_offset, message_filter) ==
    IF st.done THEN st
    ELSE ParseLoop(ParseIter(st, buf, end_offset, message_filter), buf, end_offset,
                   message_filter)

\* BinLogParser.parse_messages_in_range, drained by its caller
\* ("end_offset or size": an end of 0 means the whole file).
ParseMessagesInRange(p, buf, start_offset, end_offset, message_filter) ==
    ParseLoop(ParseStart(p, start_offset), buf,
              IF end_offset = 0 THEN Len(buf) ELSE end_offset, message_filter)

\* ----------------------------------------------------------------- planner
\* utils.find_valid_sync_positions, from a scan position on
RECURSIVE ValidSyncsFrom(_, _, _)
ValidSyncsFrom(buf, reg, from) ==
    LET position == Find(buf, SYNC_MARKER, from, Len(buf))
    IN  IF position = -1 \/ position + 3 >= Len(buf) THEN <<>>
        ELSE LET msg_id == ByteAt(buf, position + 2)
                 here == IF msg_id \in DOMAIN reg
                            /\ position + reg[msg_id].message_length <= Len(buf)
                         THEN <<position>>
                         ELSE <<>>
             IN  here \o ValidSyncsFrom(buf, reg, position + 1)

find_valid_sync_positions(buf, reg) == ValidSyncsFrom(buf, reg, 0)

\* SplitFrom with the last range ending at the last sync instead of file_size
RECURSIVE SplitFrom_EndAtLastSync(_, _, _, _, _, _, _)
SplitFrom_EndAtLastSync(positions, file_size, num_parts, per_part, remainder, i, index) ==
    IF i >= num_parts THEN <<>>
    ELSE LET take == per_part + (IF i < remainder THEN 1 ELSE 0)
             start == positions[index + 1]
             index2 == index + take
             end == IF index2 >= Len(positions) THEN positions[Len(positions)]
                    ELSE positions[index2 + 1]
         IN  <<(<<start, end>>)>>
                \o SplitFrom_EndAtLastSync(positions, file_size, num_parts, per_part,
                                           remainder, i + 1, index2)

\* SplitFrom with the extra syncs given to the last ranges instead of the first
RECURSIVE SplitFrom_ExtraLast(_, _, _, _, _, _, _)
SplitFrom_ExtraLast(positions, file_size, num_parts, per_part, remainder, i, index) ==
    IF i >= num_parts THEN <<>>
    ELSE LET take == per_part + (IF i >= num_parts - remainder THEN 1 ELSE 0)
             start == positions[index + 1]
             index2 == index + take
             end == IF index2 >= Len(positions) THEN file_size
                    ELSE positions[index2 + 1]
         IN  <<(<<start, end>>)>>
                \o SplitFrom_ExtraLast(positions, file_size, num_parts, per_part,
                                       remainder, i + 1, index2)

\* SplitFrom with the first range starting at offset 0
RECURSIVE SplitFrom_StartAtZero(_, _, _, _, _, _, _)
SplitFrom_StartAtZero(positions, file_size, num_parts, per_part, remainder, i, index) ==
    IF i >= num_parts THEN <<>>
    ELSE LET take == per_part + (IF i < remainder THEN 1 ELSE 0)
             start == IF i = 0 THEN 0 ELSE positions[index + 1]
             index2 == index + take
             end == IF index2 >= Len(positions) THEN file_size
                    ELSE positions[index2 + 1]
         IN  <<(<<start, end>>)>>
                \o SplitFrom_StartAtZero(positions, file_size, num_parts, per_part,
                                         remainder, i + 1, index2)

\* the body of the for loop of split_ranges, from part i with cursor index
RECURSIVE SplitFrom(_, _, _, _, _, _, _)
SplitFrom(positions, file_size, num_parts, per_part, remainder, i, index) ==
    IF i >= num_parts THEN <<>>
    ELSE LET take == per_part + (IF i < remainder THEN 1 ELSE 0)
             start == positions[index + 1]
             index2 == index + take
             end == IF index2 >= Len(positions) THEN file_size
                    ELSE positions[index2 + 1]
         IN  <<(<<start, end>>)>>
                \o SplitFrom(positions, file_size, num_parts, per_part, remainder,
                             i + 1, index2)

\* split_ranges that clamps num_parts to one less than the number of syncs
split_ranges_OffByOne(positions, num_parts, file_size) ==
    IF positions = <<>> THEN <<(<<0, file_size>>)>>
    ELSE LET parts == MaxOf(1, MinOf(num_parts, Len(positions) - 1))
         IN  SplitFrom(positions, file_size, parts, Len(positions) \div parts,
                       Len(positions) % parts, 0, 0)

\* the same planner with one change each in the loop body
split_ranges_EndAtLastSync(positions, num_parts, file_size) ==
    IF positions = <<>> THEN <<(<<0, file_size>>)>>
    ELSE LET parts == MaxOf(1, MinOf(num_parts, Len(positions)))
         IN  SplitFrom_EndAtLastSync(positions, file_size, parts,
                                     Len(positions) \div parts, Len(positions) % parts, 0, 0)

split_ranges_ExtraLast(positions, num_parts, file_size) ==
    IF positions = <<>> THEN <<(<<0, file_size>>)>>
    ELSE LET parts == MaxOf(1, MinOf(num_parts, Len(positions)))
         IN  SplitFrom_ExtraLast(positions, file_size, parts,
                                 Len(positions) \div parts, Len(positions) % parts, 0, 0)

split_ranges_StartAtZero(positions, num_parts, file_size) ==
    IF positions = <<>> THEN <<(<<0, file_size>>)>>
    ELSE LET parts == MaxOf(1, MinOf(num_parts, Len(positions)))
         IN  SplitFrom_StartAtZero(positions, file_size, parts,
                                   Len(positions) \div parts, Len(positions) % parts, 0, 0)

\* SplitFrom with every range running to the end of the file
RECURSIVE SplitFrom_EndAtFileSize(_, _, _, _, _, _, _)
SplitFrom_EndAtFileSize(positions, file_size, num_parts, per_part, remainder, i, index) ==
    IF i >= num_parts THEN <<>>
    ELSE LET take == per_part + (IF i < remainder THEN 1 ELSE 0)
             start == positions[index + 1]
         IN  <<(<<start, file_size>>)>>
                \o SplitFrom_EndAtFileSize(positions, file_size, num_parts, per_part,
                                           remainder, i + 1, index + take)

\* split_ranges whose ranges overlap: each one ends at file_size
split_ranges_Overlapping(positions, num_parts, file_size) ==
    IF positions = <<>> THEN <<(<<0, file_size>>)>>
    ELSE LET parts == MaxOf(1, MinOf(num_parts, Len(positions)))
         IN  SplitFrom_EndAtFileSize(positions, file_size, parts,
                                     Len(positions) \div parts, Len(positions) % parts, 0, 0)

\* split_ranges without the fallback: an empty list of syncs is planned like
\* any other list, and the loop then has nothing to hand out
split_ranges_NoFallback(positions, num_parts, file_size) ==
    LET parts == MaxOf(1, MinOf(num_parts, Len(positions)))
    IN  IF positions = <<>> THEN <<>>
        ELSE SplitFrom(positions, file_size, parts, Len(positions) \div parts,
                       Len(positions) % parts, 0, 0)

\* utils.split_ranges
split_ranges(positions, num_parts, file_size) ==
    IF positions = <<>> THEN <<(<<0, file_size>>)>>
    ELSE LET parts == MaxOf(1, MinOf(num_parts, Len(positions)))
         IN  SplitFrom(positions, file_size, parts, Len(positions) \div parts,
                       Len(positions) % parts, 0, 0)

\* ------------------------------------------------------------ merge helpers
\* the key of all_decoded_messages.sort: message.get("TimeUS", 0)
SortKey(e) == IF KeyTimeUS \in DOMAIN e.msg THEN e.msg[KeyTimeUS].val ELSE <<0, 0>>

\* k1 <= k2 on keys
KeyLeq(k1, k2) == k1[1] < k2[1] \/ (k1[1] = k2[1] /\ k1[2] <= k2[2])

\* list.sort is stable: an element goes behind every element whose key is
\* not greater than its own.
RECURSIVE InsertByKey(_, _)
InsertByKey(sorted, x) ==
    IF sorted = <<>> THEN <<x>>
    ELSE IF KeyLeq(SortKey(sorted[Len(sorted)]), SortKey(x)) THEN Append(sorted, x)
    ELSE Append(InsertByKey(SubSeq(sorted, 1, Len(sorted) - 1), x), sorted[Len(sorted)])

RECURSIVE SortFrom(_, _)
SortFrom(sorted, rest) ==
    IF rest = <<>> THEN sorted ELSE SortFrom(InsertByKey(sorted, Head(rest)), Tail(rest))

SortByTimeUS(msgs) == SortFrom(<<>>, msgs)

\* only the file of the first path is loaded
LoadAll_FirstOnly(files, paths) ==
    IF paths = <<>> THEN <<>> ELSE files[Head(paths)]

\* _load_and_merge_temp_files: the contents of the files, in the order of
\* the paths, then sorted.
RECURSIVE LoadAll(_, _)
LoadAll(files, paths) ==
    IF paths = <<>> THEN <<>> ELSE files[Head(paths)] \o LoadAll(files, Tail(paths))

\* the merge without the final sort
LoadAndMerge_NoSort(files, paths) == LoadAll(files, paths)

LoadAndMerge(files, paths) == SortByTimeUS(LoadAll(files, paths))

\* _parse_bin_segment: a fresh parser without warning collection decodes the
\* range; messages named "FMT" are dropped from what it yields.
ParseBinSegment(buf, format_definitions, byte_offset_start, byte_offset_end, message_filter) ==
    LET st == ParseMessagesInRange(NewParser(format_definitions, FALSE), buf,
                                   byte_offset_start, byte_offset_end, message_filter)
    IN  [error |-> st.parser.error,
         decoded_messages |->
            SelectSeq(st.out, LAMBDA e : e.msg[KeyMessageType] # StrVal(NameFMT))]

\* ------------------------------------------------------------------- inputs
\* tests/conftest.py build_fmt_message and build_data_message
Zeros(n) == [i \in 1..n |-> 0]
build_fmt_message(message_type_id, name_bytes, ardu_format, field_names_csv, total_msg_length) ==
    SYNC_MARKER \o <<FMT_TYPE_ID, message_type_id, total_msg_length>> \o name_bytes
        \o ardu_format \o Zeros(16 - Len(ardu_format))
        \o field_names_csv \o Zeros(64 - Len(field_names_csv))

build_data_message(message_type_id, payload_bytes) ==
    SYNC_MARKER \o <<message_type_id>> \o payload_bytes

\* FMT of FMT itself: id 128, "FMT", "BBnNZ", "Type,Length,Name,Format,Columns"
FmtSelf ==
    build_fmt_message(128, <<70, 77, 84, 0>>, <<66, 66, 110, 78, 90>>,
        <<84, 121, 112, 101, 44, 76, 101, 110, 103, 116, 104, 44, 78, 97, 109, 101,
          44, 70, 111, 114, 109, 97, 116, 44, 67, 111, 108, 117, 109, 110, 115>>, 89)
\* id 200, "TST", "IB", "TimeUS,V"
FmtTST ==
    build_fmt_message(200, <<84, 83, 84, 0>>, <<73, 66>>,
        <<84, 105, 109, 101, 85, 83, 44, 86>>, 8)
\* id 201, "NT", "B", "V": a type without TimeUS
FmtNT == build_fmt_message(201, <<78, 84, 0, 0>>, <<66>>, <<86>>, 4)

LogPrefix == FmtSelf \o FmtTST \o FmtNT

\* Declarations that only the logs of a discovery driven on its own hold:
\* a TST declaration whose Length byte (3) is less than its 5 payload bytes + 3
FmtTSTShort ==
    build_fmt_message(200, <<84, 83, 84, 0>>, <<73, 66>>,
        <<84, 105, 109, 101, 85, 83, 44, 86>>, 3)
\* a TST declaration whose Length byte is 0
FmtTSTZero ==
    build_fmt_message(200, <<84, 83, 84, 0>>, <<73, 66>>,
        <<84, 105, 109, 101, 85, 83, 44, 86>>, 0)
\* a TST declaration that names one field for its two values
FmtTSTFew ==
    build_fmt_message(200, <<84, 83, 84, 0>>, <<73, 66>>, <<84, 105, 109, 101, 85, 83>>, 8)
\* id 200 under the name "T-T", which is not alphanumeric
FmtBadName ==
    build_fmt_message(200, <<84, 45, 84, 0>>, <<73, 66>>,
        <<84, 105, 109, 101, 85, 83, 44, 86>>, 8)
\* id 202, "E", no format, Length 3: a frame without payload, for which the
\* record names one field all the same
FmtEmpty == build_fmt_message(202, <<69, 0, 0, 0>>, <<>>, <<86>>, 3)
\* id 203, "H", "B", "V", whose Columns field holds the bytes A3 95 80 behind
\* the names, and whose Length byte (5) is more than its 1 payload byte + 3
FmtNested ==
    build_fmt_message(203, <<72, 0, 0, 0>>, <<66>>, <<86, 0, 0, 163, 149, 128>>, 5)

\* The chunks a generated log continues with:
\*   "A"  TST frame, TimeUS = 1, V = 7
\*   "B"  TST frame, TimeUS = 0, V = 7
\*   "N"  NT frame, V = 7
\*   "S"  TST frame whose payload starts with A3 95 C8 (TimeUS = 0x00C895A3)
\*   "J"  the stray bytes A3 95 7E: a sync followed by an undeclared id
\*   "K"  the stray bytes A3 95 C8: a sync followed by the id of TST
\*   "T" "F" "z" "X" "E" "H"  the FMT records FmtTST, FmtTSTFew, FmtTSTZero,
\*        FmtBadName, FmtEmpty, FmtNested
\*   "P"  the bytes A3 95 80 alone: an FMT header without its record
\*   "e"  a frame of type E: A3 95 CA and no payload
\* A run decodes logs made of the first five; the others occur only in the
\* logs a parser is driven over directly.
ChunkKinds == {"A", "B", "N", "S", "J"}
ChunkBytes(k) ==
    CASE k = "A" -> build_data_message(200, <<1, 0, 0, 0, 7>>)
      [] k = "B" -> build_data_message(200, <<0, 0, 0, 0, 7>>)
      [] k = "N" -> build_data_message(201, <<7>>)
      [] k = "S" -> build_data_message(200, <<163, 149, 200, 0, 7>>)
      [] k = "J" -> <<163, 149, 126>>
      [] k = "K" -> <<163, 149, 200>>
      [] k = "T" -> FmtTST
      [] k = "F" -> FmtTSTFew
      [] k = "z" -> FmtTSTZero
      [] k = "X" -> FmtBadName
      [] k = "E" -> FmtEmpty
      [] k = "H" -> FmtNested
      [] k = "P" -> FMT_HEADER
      [] k = "e" -> <<163, 149, 202>>

ChunkSeqs == UNION {[1..n -> ChunkKinds] : n \in 0..MaxFrames}

LogOf(cs) == LogPrefix \o Flatten([i \in 1..Len(cs) |-> ChunkBytes(cs[i])])

\* only complete FMT records and complete data frames of declared types
WellFormed(cs) == \A i \in 1..Len(cs) : cs[i] # "J"

NameTST == <<84, 83, 84>>
FilterChoices == {NoFilter, FilterOf({NameTST})}

\* ------------------------------------------------------------------- state
VARIABLES
    chunks,                  \* how the log was put together (never read by the code)
    log,                     \* the bytes of the file
    num_workers,             \* ParallelBinDecoder.num_workers
    running_mode,            \* "process" or "thread"
    message_filter,          \* ParallelBinDecoder.message_filter
    phase,                   \* where run() is
    error,                   \* the exception run() ends with, or "none"
    fmt_definitions,         \* the registry of the coordinator's parser
    SHARED_FMT_DEFINITIONS,  \* the registry copy of the worker processes
    sync_positions,          \* result of find_valid_sync_positions
    file_size_bytes,
    byte_ranges,             \* result of split_ranges
    wstate,                  \* per range: "pending", "done" or "failed"
    tmp_files,               \* the temporary files that exist: path -> content
    temporary_file_paths,    \* the paths collected by the coordinator
    consumed,                \* thread mode: the futures already taken
    all_decoded_messages,    \* what run() returns
    scan                     \* a BinLogParser driven directly: the parser and the
                             \* state of its parse_messages_in_range generator

vars == <<chunks, log, num_workers, running_mode, message_filter, phase, error,
          fmt_definitions, SHARED_FMT_DEFINITIONS, sync_positions, file_size_bytes,
          byte_ranges, wstate, tmp_files, temporary_file_paths, consumed,
          all_decoded_messages, scan>>

inputs == <<chunks, log, num_workers, running_mode, message_filter>>
plan == <<sync_positions, file_size_bytes, byte_ranges>>

NoFiles == [i \in {} |-> <<>>]

\* no parser is driven directly during a run
NoScan == ParseStart(NewParser(EmptyRegistry, FALSE), 0)

RunIdle ==
    /\ phase = "Idle"
    /\ error = "none"
    /\ fmt_definitions = EmptyRegistry
    /\ SHARED_FMT_DEFINITIONS = EmptyRegistry
    /\ sync_positions = <<>>
    /\ file_size_bytes = 0
    /\ byte_ranges = <<>>
    /\ wstate = <<>>
    /\ tmp_files = NoFiles
    /\ temporary_file_paths = <<>>
    /\ consumed = {}
    /\ all_decoded_messages = <<>>
    /\ scan = NoScan

Init ==
    /\ chunks \in ChunkSeqs
    /\ log = LogOf(chunks)
    /\ num_workers \in 1..MaxWorkers
    /\ running_mode \in {"process", "thread"}
    /\ message_filter \in FilterChoices
    /\ RunIdle

\* ----------------------------------------------------------------- actions
\* ParallelBinDecoder.run is called.
StartRun ==
    /\ phase = "Idle"
    /\ phase' = "Discovering"
    /\ UNCHANGED <<scan, inputs, error, fmt_definitions, SHARED_FMT_DEFINITIONS, plan, wstate,
                   tmp_files, temporary_file_paths, consumed, all_decoded_messages>>

\* _load_formats_and_calculate_ranges, first half: BinLogParser(mapped_log_file)
\* and preload_fmt_messages.
Discover ==
    /\ phase = "Discovering"
    /\ LET p == PreloadFmtMessages(NewParser(EmptyRegistry, FALSE), log)
       IN  IF p.error # "none"
           THEN /\ phase' = "Failed"
                /\ error' = p.error
                /\ UNCHANGED fmt_definitions
           ELSE /\ phase' = "Planning"
                /\ fmt_definitions' = p.fmt_definitions
                /\ UNCHANGED error
    /\ UNCHANGED <<scan, inputs, SHARED_FMT_DEFINITIONS, plan, wstate, tmp_files,
                   temporary_file_paths, consumed, all_decoded_messages>>

\* _load_formats_and_calculate_ranges, second half.
Plan ==
    /\ phase = "Planning"
    /\ file_size_bytes' = Len(log)
    /\ sync_positions' = find_valid_sync_positions(log, fmt_definitions)
    /\ byte_ranges' = split_ranges(sync_positions', num_workers, Len(log))
    /\ phase' = "Dispatched"
    /\ UNCHANGED <<scan, inputs, error, fmt_definitions, SHARED_FMT_DEFINITIONS, wstate,
                   tmp_files, temporary_file_paths, consumed, all_decoded_messages>>

\* _process_all_segments: the pool is created and every range is submitted.
\* Process mode: _init_worker copies the registry into each worker process and
\* builds the struct objects of the copy.  Thread mode: _build_struct_objects
\* runs on the coordinator's registry, which the threads share.
Dispatch ==
    /\ phase = "Dispatched"
    /\ wstate = <<>>
    /\ error = "none"
    /\ wstate' = [i \in 1..Len(byte_ranges) |-> "pending"]
    /\ IF running_mode = "process"
       THEN /\ SHARED_FMT_DEFINITIONS' = BuildStructObjects(fmt_definitions)
            /\ UNCHANGED fmt_definitions
       ELSE /\ fmt_definitions' = BuildStructObjects(fmt_definitions)
            /\ UNCHANGED SHARED_FMT_DEFINITIONS
    /\ UNCHANGED <<scan, inputs, phase, error, plan, tmp_files, temporary_file_paths, consumed,
                   all_decoded_messages>>

\* _worker_process_segment / _worker_thread_segment on range i: decode the
\* range and save the messages to a new temporary file (named i here), or
\* fail with the exception of the decode.
Worker(i) ==
    /\ phase = "Dispatched"
    /\ i \in 1..Len(wstate)
    /\ wstate[i] = "pending"
    /\ LET reg == IF running_mode = "process" THEN SHARED_FMT_DEFINITIONS
                  ELSE fmt_definitions
           r == ParseBinSegment(log, reg, byte_ranges[i][1], byte_ranges[i][2],
                                message_filter)
       IN  IF r.error # "none"
           THEN /\ wstate' = [wstate EXCEPT ![i] = "failed"]
                /\ UNCHANGED tmp_files
           ELSE /\ wstate' = [wstate EXCEPT ![i] = "done"]
                /\ tmp_files' = [j \in (DOMAIN tmp_files) \cup {i} |->
                                    IF j = i THEN r.decoded_messages ELSE tmp_files[j]]
    /\ UNCHANGED <<scan, inputs, phase, error, fmt_definitions, SHARED_FMT_DEFINITIONS, plan,
                   temporary_file_paths, consumed, all_decoded_messages>>

AllFinished == wstate # <<>> /\ \A i \in 1..Len(wstate) : wstate[i] # "pending"

\* _run_with_processes going on to the merge with the files of the workers
\* that succeeded, whatever became of the others
PoolJoin_Partial ==
    /\ phase = "Dispatched"
    /\ running_mode = "process"
    /\ AllFinished
    /\ phase' = "Merging"
    /\ temporary_file_paths' =
          SelectSeq([i \in 1..Len(wstate) |-> i], LAMBDA i : wstate[i] = "done")
    /\ UNCHANGED <<scan, inputs, error, fmt_definitions, SHARED_FMT_DEFINITIONS, plan,
                   wstate, tmp_files, consumed, all_decoded_messages>>

\* _run_with_processes: starmap returns once every task has ended, with the
\* results in the order of the ranges, or re-raises a worker's exception.
PoolJoin ==
    /\ phase = "Dispatched"
    /\ running_mode = "process"
    /\ AllFinished
    /\ IF \E i \in 1..Len(wstate) : wstate[i] = "failed"
       THEN /\ phase' = "Failed"
            /\ error' = "AttributeError"
            /\ UNCHANGED temporary_file_paths
       ELSE /\ phase' = "Merging"
            /\ temporary_file_paths' = [i \in 1..Len(wstate) |-> i]
            /\ UNCHANGED error
    /\ UNCHANGED <<scan, inputs, fmt_definitions, SHARED_FMT_DEFINITIONS, plan, wstate,
                   tmp_files, consumed, all_decoded_messages>>

\* _run_with_threads: as_completed hands over a finished future; its result
\* is appended, or its exception leaves the loop.
ConsumeFuture(i) ==
    /\ phase = "Dispatched"
    /\ running_mode = "thread"
    /\ error = "none"
    /\ i \in 1..Len(wstate)
    /\ wstate[i] # "pending"
    /\ i \notin consumed
    /\ consumed' = consumed \cup {i}
    /\ IF wstate[i] = "failed"
       THEN /\ error' = "AttributeError"
            /\ UNCHANGED temporary_file_paths
       ELSE /\ temporary_file_paths' = Append(temporary_file_paths, i)
            /\ UNCHANGED error
    /\ UNCHANGED <<scan, inputs, phase, fmt_definitions, SHARED_FMT_DEFINITIONS, plan, wstate,
                   tmp_files, all_decoded_messages>>

\* _run_with_threads returning the paths collected so far without waiting
\* for the threads still at work
ThreadsJoin_Early ==
    /\ phase = "Dispatched"
    /\ running_mode = "thread"
    /\ wstate # <<>>
    /\ error = "none"
    /\ phase' = "Merging"
    /\ UNCHANGED <<scan, inputs, error, fmt_definitions, SHARED_FMT_DEFINITIONS, plan, wstate,
                   tmp_files, temporary_file_paths, consumed, all_decoded_messages>>

\* _run_with_threads: leaving the with block waits for every thread; then
\* the paths are returned, or the exception goes on to the caller of run.
ThreadsJoin ==
    /\ phase = "Dispatched"
    /\ running_mode = "thread"
    /\ AllFinished
    /\ \/ error # "none" /\ phase' = "Failed"
       \/ error = "none" /\ consumed = 1..Len(wstate) /\ phase' = "Merging"
    /\ UNCHANGED <<scan, inputs, error, fmt_definitions, SHARED_FMT_DEFINITIONS, plan, wstate,
                   tmp_files, temporary_file_paths, consumed, all_decoded_messages>>

\* _load_and_merge_temp_files: load and remove every collected file, sort.
Merge ==
    /\ phase = "Merging"
    /\ all_decoded_messages' = LoadAndMerge(tmp_files, temporary_file_paths)
    /\ tmp_files' = [j \in (DOMAIN tmp_files) \ {temporary_file_paths[n] :
                                n \in 1..Len(temporary_file_paths)} |-> tmp_files[j]]
    /\ phase' = "Done"
    /\ UNCHANGED <<scan, inputs, error, fmt_definitions, SHARED_FMT_DEFINITIONS, plan, wstate,
                   temporary_file_paths, consumed>>

Next ==
    \/ StartRun
    \/ Discover
    \/ Plan
    \/ Dispatch
    \/ \E i \in 1..MaxWorkers : Worker(i)
    \/ PoolJoin
    \/ \E i \in 1..MaxWorkers : ConsumeFuture(i)
    \/ ThreadsJoin
    \/ Merge

Spec == Init /\ [][Next]_vars

\* -------------------------------------------- split_ranges called on its own
\* tests/test_helpers_unit.py calls split_ranges directly.  The inputs are
\* lists of valid syncs (strictly increasing, each at least 4 bytes before
\* the end of the file), any num_parts, and the file size.
RECURSIVE SortedSeqOf(_)
SortedSeqOf(S) ==
    IF S = {} THEN <<>>
    ELSE LET m == CHOOSE x \in S : \A y \in S : x <= y
         IN  <<m>> \o SortedSeqOf(S \ {m})

InitSplit ==
    /\ chunks = <<>>
    /\ log = <<>>
    /\ running_mode = "process"
    /\ message_filter = NoFilter
    /\ phase = "SplitCall"
    /\ error = "none"
    /\ fmt_definitions = EmptyRegistry
    /\ SHARED_FMT_DEFINITIONS = EmptyRegistry
    /\ \E S \in SUBSET (0..MaxOffset) : sync_positions = SortedSeqOf(S)
    /\ num_workers \in (-1)..MaxParts
    /\ file_size_bytes \in {MaxOffset + 4, MaxOffset + 9}
    /\ byte_ranges = <<>>
    /\ wstate = <<>>
    /\ tmp_files = NoFiles
    /\ temporary_file_paths = <<>>
    /\ consumed = {}
    /\ all_decoded_messages = <<>>
    /\ scan = NoScan

SplitRanges ==
    /\ phase = "SplitCall"
    /\ byte_ranges' = split_ranges(sync_positions, num_workers, file_size_bytes)
    /\ phase' = "SplitReturned"
    /\ UNCHANGED <<scan, inputs, error, fmt_definitions, SHARED_FMT_DEFINITIONS, sync_positions,
                   file_size_bytes, wstate, tmp_files, temporary_file_paths, consumed,
                   all_decoded_messages>>

NextSplit == SplitRanges

SpecSplit == InitSplit /\ [][NextSplit]_vars

\* ------------------------------------------ a BinLogParser driven directly
\* tests/test_bin_log_parser_unit.py drives one parser by hand: construct,
\* preload_fmt_messages, build_structs_for_local_use, then drain
\* parse_messages_in_range.  Here every order of these calls is taken in
\* which the discovery runs once or twice and the layouts are built or not.
\* The parser collects its warnings (collect_warnings=True); what a parser
\* without collection does on a warning is part of the run, whose workers
\* build theirs that way.  Logs with the mis-declared TST are decoded without
\* a filter.
\*
\* The logs: complete frames, with at most one run of stray bytes put in
\* front of a frame or behind the last one.
ValidKinds == {"A", "N", "S"}
JunkKinds == {"J", "K"}
FrameSeqs == UNION {[1..n -> ValidKinds] : n \in 0..MaxFrames}
InsertAt(cs, k, j) == SubSeq(cs, 1, k) \o <<j>> \o SubSeq(cs, k + 1, Len(cs))
ParseChunkSeqs ==
    FrameSeqs \cup
        UNION {{InsertAt(cs, k, j) : k \in 0..Len(cs), j \in JunkKinds} : cs \in FrameSeqs}

ShortPrefix == FmtSelf \o FmtTSTShort \o FmtNT

LogWith(prefix, cs) == prefix \o Flatten([i \in 1..Len(cs) |-> ChunkBytes(cs[i])])

NameGPS == <<71, 80, 83>>
ParseFilterChoices == {NoFilter, FilterOf({}), FilterOf({NameTST}), FilterOf({NameGPS})}

\* the range of the call under test: byte_ranges holds (start_offset, end_offset)
ScanEnd == byte_ranges[1][2]

InitParser ==
    /\ chunks \in ParseChunkSeqs
    /\ \/ log = LogWith(LogPrefix, chunks) /\ message_filter \in ParseFilterChoices
       \/ log = LogWith(ShortPrefix, chunks) /\ message_filter = NoFilter
    /\ num_workers = 1
    /\ running_mode = "process"
    /\ phase = "Constructed"
    /\ error = "none"
    /\ fmt_definitions = EmptyRegistry
    /\ SHARED_FMT_DEFINITIONS = EmptyRegistry
    /\ sync_positions = <<>>
    /\ file_size_bytes = Len(log)
    /\ \E cut \in 0..1 : byte_ranges = <<(<<0, Len(log) - cut>>)>>
    /\ wstate = <<>>
    /\ tmp_files = NoFiles
    /\ temporary_file_paths = <<>>
    /\ consumed = {}
    /\ all_decoded_messages = <<>>
    /\ scan = ParseStart(NewParser(EmptyRegistry, TRUE), 0)

\* parser.preload_fmt_messages(), the first or the second time.  After the
\* first time SHARED_FMT_DEFINITIONS keeps a copy of the registry.
Preload ==
    /\ phase \in {"Constructed", "Loaded", "Built"}
    /\ LET p == PreloadFmtMessages(scan.parser, log)
       IN  /\ scan' = [scan EXCEPT !.parser = p]
           /\ error' = p.error
           /\ phase' = CASE p.error # "none"       -> "Raised"
                         [] phase = "Constructed" -> "Loaded"
                         [] phase = "Loaded"      -> "Reloaded"
                         [] phase = "Built"       -> "ReloadedAfterBuild"
           /\ SHARED_FMT_DEFINITIONS' =
                 IF phase = "Constructed" THEN p.fmt_definitions
                 ELSE SHARED_FMT_DEFINITIONS
    /\ UNCHANGED <<inputs, fmt_definitions, plan, wstate, tmp_files,
                   temporary_file_paths, consumed, all_decoded_messages>>

\* build_structs_for_local_use(parser.fmt_definitions)
BuildStructs ==
    /\ phase = "Loaded"
    /\ scan' = [scan EXCEPT !.parser.fmt_definitions = BuildStructObjects(@)]
    /\ phase' = "Built"
    /\ UNCHANGED <<inputs, error, fmt_definitions, SHARED_FMT_DEFINITIONS, plan, wstate,
                   tmp_files, temporary_file_paths, consumed, all_decoded_messages>>

\* The caller of the generator is followed for this many messages at most: a
\* decode over these logs that ends emits fewer, one that does not end would
\* emit without bound.
MaxEmitted == 2 * MaxFrames + 2

\* one iteration of the loop of parse_messages_in_range(0, end, filter); the
\* first one starts the generator.
ParseStep ==
    /\ phase \in {"Loaded", "Built", "Reloaded", "ReloadedAfterBuild", "Parsing"}
    /\ ~scan.done
    /\ Len(scan.out) <= MaxEmitted
    /\ scan' = ParseIter(scan, log, ScanEnd, message_filter)
    /\ phase' = "Parsing"
    /\ UNCHANGED <<inputs, error, fmt_definitions, SHARED_FMT_DEFINITIONS, plan, wstate,
                   tmp_files, temporary_file_paths, consumed, all_decoded_messages>>

\* the generator is exhausted and the caller holds the list, or the
\* exception of the last iteration reaches the caller
ParseEnd ==
    /\ phase = "Parsing"
    /\ scan.done
    /\ error' = scan.parser.error
    /\ IF scan.parser.error = "none"
       THEN phase' = "Parsed" /\ all_decoded_messages' = scan.out
       ELSE phase' = "Raised" /\ UNCHANGED all_decoded_messages
    /\ UNCHANGED <<scan, inputs, fmt_definitions, SHARED_FMT_DEFINITIONS, plan, wstate,
                   tmp_files, temporary_file_paths, consumed>>

NextParser ==
    \/ Preload
    \/ BuildStructs
    \/ ParseStep
    \/ ParseEnd

SpecParser == InitParser /\ [][NextParser]_vars

\* ------------------------------------------------ validation on its own
\* A parser constructed with a registry handed to it, BinLogParser(log,
\* format_definitions=...), on which _validate_fmt_definitions is called.
\* The registry declares any of the ids 200 and 201 with a layout that
\* compiles ("<IB", 5 bytes) or does not ("<IY"), a stored size that is the
\* size of "<IB" or is not, and a Length of 0, 8 or 9.
GivenDescriptors(id) ==
    {[id |-> id, name |-> NameTST, ardu_format |-> <<73, 66>>,
      field_names |-> <<KeyTimeUS, <<86>>>>, struct_fmt |-> f, struct_size |-> sz,
      message_length |-> l, struct_obj |-> FALSE] :
        f \in {<<"I", "B">>, <<"I", "Y">>}, sz \in {4, 5}, l \in {0, 8, 9}}

GivenRegistries ==
    UNION {{[i \in ids |-> IF i = 200 THEN d1 ELSE d2] :
                d1 \in GivenDescriptors(200), d2 \in GivenDescriptors(201)} :
           ids \in SUBSET {200, 201}}

InitValidate ==
    /\ chunks = <<"J">>
    /\ log = LogWith(<<>>, chunks)
    /\ message_filter = NoFilter
    /\ num_workers = 1
    /\ running_mode = "process"
    /\ phase = "Constructed"
    /\ error = "none"
    /\ fmt_definitions = EmptyRegistry
    /\ SHARED_FMT_DEFINITIONS = EmptyRegistry
    /\ sync_positions = <<>>
    /\ file_size_bytes = Len(log)
    /\ byte_ranges = <<(<<0, Len(log)>>)>>
    /\ wstate = <<>>
    /\ tmp_files = NoFiles
    /\ temporary_file_paths = <<>>
    /\ consumed = {}
    /\ all_decoded_messages = <<>>
    /\ \E reg \in GivenRegistries : scan = ParseStart(NewParser(reg, TRUE), 0)

\* validation that discards the descriptors it has a warning for
ValidateFmt_DropWarned ==
    /\ phase = "Constructed"
    /\ scan' = [scan EXCEPT !.parser.fmt_definitions =
                   [i \in (DOMAIN @) \ ValidateFmtDefinitions(@) |-> @[i]]]
    /\ phase' = "Validated"
    /\ UNCHANGED <<inputs, error, fmt_definitions, SHARED_FMT_DEFINITIONS, plan, wstate,
                   tmp_files, temporary_file_paths, consumed, all_decoded_messages>>

\* parser._validate_fmt_definitions(): every descriptor is read, its format
\* is compiled and its sizes are compared; the findings go to the logger.
ValidateFmt ==
    /\ phase = "Constructed"
    /\ phase' = "Validated"
    /\ UNCHANGED <<scan, inputs, error, fmt_definitions, SHARED_FMT_DEFINITIONS, plan,
                   wstate, tmp_files, temporary_file_paths, consumed, all_decoded_messages>>

NextValidate == ValidateFmt

SpecValidate == InitValidate /\ [][NextValidate]_vars

\* ------------------------------------------------- one type of any format
\* The same parser over logs that declare one type, id 210 "SC", and hold one
\* frame of it.  The format of the type is any string of at most MaxFormatLen
\* characters out of 'B' (uint8), 'L' (int32 with a scale factor) and '?'
\* (not a character of the alphabet); the record names one field per value,
\* "a", "b", ..., and its Length is the payload size + 3.
ScaleFormats == UNION {[1..n -> {66, 76, 63}] : n \in 1..MaxFormatLen}
ScaleTypeId == 210
ScaleFrameOffset == FMT_MESSAGE_LENGTH

RECURSIVE FieldLetters(_)
FieldLetters(n) ==
    IF n = 0 THEN <<>>
    ELSE IF n = 1 THEN <<97>>
    ELSE FieldLetters(n - 1) \o <<44, 96 + n>>

FmtScale(ardu_format) ==
    build_fmt_message(ScaleTypeId, <<83, 67, 0, 0>>, ardu_format,
        FieldLetters(Len(ConvertToStructFormat(ardu_format))),
        CalcSize(ConvertToStructFormat(ardu_format)) + 3)

\* a frame of the type whose payload bytes count up from base + 1
ScaleFrame(ardu_format, base) ==
    build_data_message(ScaleTypeId,
        [j \in 1..CalcSize(ConvertToStructFormat(ardu_format)) |-> (base + j) % 256])

InitScale ==
    /\ chunks \in ScaleFormats
    /\ \E base \in {0, 250} : log = FmtScale(chunks) \o ScaleFrame(chunks, base)
    /\ message_filter = NoFilter
    /\ num_workers = 1
    /\ running_mode = "process"
    /\ phase = "Constructed"
    /\ error = "none"
    /\ fmt_definitions = EmptyRegistry
    /\ SHARED_FMT_DEFINITIONS = EmptyRegistry
    /\ sync_positions = <<>>
    /\ file_size_bytes = Len(log)
    /\ byte_ranges = <<(<<0, Len(log)>>)>>
    /\ wstate = <<>>
    /\ tmp_files = NoFiles
    /\ temporary_file_paths = <<>>
    /\ consumed = {}
    /\ all_decoded_messages = <<>>
    /\ scan = ParseStart(NewParser(EmptyRegistry, TRUE), 0)

SpecScale == InitScale /\ [][NextParser]_vars

\* -------------------------------------------- the run over few valid syncs
\* The run of ParallelBinDecoder over logs that declare TST only: their FMT
\* record is no valid sync (id 0x80 is not declared), so the planner has as
\* many valid syncs as the log has TST frames, which may be fewer than the
\* workers asked for, or none.
FewKinds == {"A", "B", "J"}
FewChunkSeqs == UNION {[1..n -> FewKinds] : n \in 0..MaxFrames}

InitFewSyncs ==
    /\ chunks \in FewChunkSeqs
    /\ log = LogWith(FmtTST, chunks)
    /\ num_workers \in 1..MaxWorkers
    /\ running_mode \in {"process", "thread"}
    /\ message_filter \in FilterChoices
    /\ RunIdle

SpecFewSyncs == InitFewSyncs /\ [][Next]_vars

\* ------------------------------------------- the discovery, step by step
\* The same parser over logs that put FMT records of every kind, lone FMT
\* headers and frames in any order, with the loop of preload_fmt_messages
\* taken one FMT candidate at a time.  While the scan runs, scan.position is
\* the position of _find_fmt_offsets and scan.out the offsets it has yielded.
DiscoverKinds == {"T", "F", "z", "X", "E", "H", "P", "A", "e"}
DiscoverChunkSeqs == UNION {[1..n -> DiscoverKinds] : n \in 1..(MaxFrames + 1)}

\* _find_fmt_offsets: the next offset the generator yields from position (-1
\* when it ends)
FmtScanNext(buf, position) ==
    IF position >= Len(buf) THEN -1 ELSE Find(buf, FMT_HEADER, position, Len(buf))

\* the scan going on right behind the three header bytes
FmtScanAdvance_PastHeader(next_fmt_offset) == next_fmt_offset + Len(FMT_HEADER)

\* "position = next_fmt_offset + FMT_MESSAGE_LENGTH" of _find_fmt_offsets
FmtScanAdvance(next_fmt_offset) == next_fmt_offset + FMT_MESSAGE_LENGTH

\* list(self._find_fmt_offsets()): every offset the generator yields
RECURSIVE FmtOffsetsFrom(_, _)
FmtOffsetsFrom(buf, position) ==
    LET next_fmt_offset == FmtScanNext(buf, position)
    IN  IF next_fmt_offset = -1 THEN <<>>
        ELSE <<next_fmt_offset>> \o FmtOffsetsFrom(buf, FmtScanAdvance(next_fmt_offset))
find_fmt_offsets(buf) == FmtOffsetsFrom(buf, 0)

InitDiscover ==
    /\ chunks \in DiscoverChunkSeqs
    /\ log = LogWith(<<>>, chunks)
    /\ num_workers = 1
    /\ running_mode = "process"
    /\ message_filter = NoFilter
    /\ phase = "Constructed"
    /\ error = "none"
    /\ fmt_definitions = EmptyRegistry
    /\ SHARED_FMT_DEFINITIONS = EmptyRegistry
    /\ sync_positions = <<>>
    /\ file_size_bytes = Len(log)
    /\ byte_ranges = <<(<<0, Len(log)>>)>>
    /\ wstate = <<>>
    /\ tmp_files = NoFiles
    /\ temporary_file_paths = <<>>
    /\ consumed = {}
    /\ all_decoded_messages = <<>>
    /\ scan = ParseStart(NewParser(EmptyRegistry, TRUE), 0)

\* one round of "for fmt_offset in self._find_fmt_offsets(): _parse_fmt_message"
FmtScanStep ==
    /\ phase \in {"Constructed", "Scanning"}
    /\ FmtScanNext(log, scan.position) # -1
    /\ LET fmt_offset == FmtScanNext(log, scan.position)
           r == ParseFmtMessage(scan.parser, log, fmt_offset)
       IN  /\ scan' = [scan EXCEPT !.parser = r.parser,
                                   !.position = FmtScanAdvance(fmt_offset),
                                   !.out = Append(@, fmt_offset)]
           /\ phase' = "Scanning"
    /\ UNCHANGED <<inputs, error, fmt_definitions, SHARED_FMT_DEFINITIONS, plan, wstate,
                   tmp_files, temporary_file_paths, consumed, all_decoded_messages>>

\* the generator ends; _validate_fmt_definitions logs and preload returns
FmtScanEnd ==
    /\ phase \in {"Constructed", "Scanning"}
    /\ FmtScanNext(log, scan.position) = -1
    /\ scan' = ParseStart(scan.parser, 0)
    /\ phase' = "Loaded"
    /\ UNCHANGED <<inputs, error, fmt_definitions, SHARED_FMT_DEFINITIONS, plan, wstate,
                   tmp_files, temporary_file_paths, consumed, all_decoded_messages>>

\* find_valid_sync_positions(mapped_log, parser.fmt_definitions)
FindSyncs ==
    /\ phase = "Loaded"
    /\ sync_positions' = find_valid_sync_positions(log, scan.parser.fmt_definitions)
    /\ phase' = "Planned"
    /\ UNCHANGED <<scan, inputs, error, fmt_definitions, SHARED_FMT_DEFINITIONS,
                   file_size_bytes, byte_ranges, wstate, tmp_files, temporary_file_paths,
                   consumed, all_decoded_messages>>

NextDiscover ==
    \/ FmtScanStep
    \/ FmtScanEnd
    \/ FindSyncs
    \/ BuildStructs
    \/ ParseStep
    \/ ParseEnd

SpecDiscover == InitDiscover /\ [][NextDiscover]_vars

\* ------------------------------------------------- one parser, used again
\* The parser of the stepwise discovery, on which preload_fmt_messages may be
\* called a second time and parse_messages_in_range a second time when the
\* first decode has ended.  Its logs have at most MaxFrames chunks.
InitReuse ==
    /\ InitDiscover
    /\ Len(chunks) <= MaxFrames

\* parse_messages_in_range(0, end) is called again on the same parser
ParseAgain ==
    /\ phase = "Parsed"
    /\ scan' = ParseStart(scan.parser, 0)
    /\ phase' = "Again"
    /\ UNCHANGED <<inputs, error, fmt_definitions, SHARED_FMT_DEFINITIONS, plan, wstate,
                   tmp_files, temporary_file_paths, consumed, all_decoded_messages>>

\* one iteration of the loop of the second decode
ParseStepAgain ==
    /\ phase \in {"Again", "ParsingAgain"}
    /\ ~scan.done
    /\ Len(scan.out) <= MaxEmitted
    /\ scan' = ParseIter(scan, log, ScanEnd, message_filter)
    /\ phase' = "ParsingAgain"
    /\ UNCHANGED <<inputs, error, fmt_definitions, SHARED_FMT_DEFINITIONS, plan, wstate,
                   tmp_files, temporary_file_paths, consumed, all_decoded_messages>>

\* the second generator is exhausted
ParseEndAgain ==
    /\ phase = "ParsingAgain"
    /\ scan.done
    /\ phase' = "ParsedAgain"
    /\ all_decoded_messages' = all_decoded_messages \o scan.out
    /\ UNCHANGED <<scan, inputs, error, fmt_definitions, SHARED_FMT_DEFINITIONS, plan, wstate,
                   tmp_files, temporary_file_paths, consumed>>

NextReuse ==
    \/ FmtScanStep
    \/ FmtScanEnd
    \/ Preload
    \/ BuildStructs
    \/ ParseStep
    \/ ParseEnd
    \/ ParseAgain
    \/ ParseStepAgain
    \/ ParseEndAgain

SpecReuse == InitReuse /\ [][NextReuse]_vars

\* ==================================================================== claims
\* ------------------------------------------------- split_ranges (SpecSplit)
SplitReturned == phase = "SplitReturned"

\* the number of ranges the planner is to return
PlannedK == MaxOf(1, MinOf(num_workers, Len(sync_positions)))

\* the number of valid syncs that fall in range i
SyncsIn(i) ==
    Cardinality({j \in 1..Len(sync_positions) :
                    /\ byte_ranges[i][1] <= sync_positions[j]
                    /\ sync_positions[j] < byte_ranges[i][2]})

\* C7: split_ranges returns exactly k = max(1, min(num_parts, |valid_syncs|))
\* ranges, for every list of valid syncs, every num_parts (also <= 0 and
\* > |valid_syncs|) and every file size.
C7_ExactlyKRanges == SplitReturned => Len(byte_ranges) = PlannedK

\* C7 witness: the call has returned for a num_parts above the number of
\* syncs (clamped down) with at least two syncs.
C7_Witness ==
    /\ SplitReturned
    /\ Len(sync_positions) >= 2
    /\ num_workers > Len(sync_positions)
    /\ Len(byte_ranges) = Len(sync_positions)

\* C8: the ranges are contiguous and non-overlapping: each range ends where
\* the next one starts, and the last range ends exactly at file_size.
C8_Contiguous ==
    SplitReturned =>
        /\ \A i \in 1..(Len(byte_ranges) - 1) : byte_ranges[i][2] = byte_ranges[i + 1][1]
        /\ \A i \in 1..Len(byte_ranges) : byte_ranges[i][1] < byte_ranges[i][2]
        /\ byte_ranges[Len(byte_ranges)][2] = file_size_bytes

\* C8 witness: at least three ranges were returned.
C8_Witness == SplitReturned /\ Len(byte_ranges) >= 3

\* C9: the numbers of valid syncs in the ranges differ by at most one, and
\* exactly the first (|valid_syncs| mod k) ranges hold one extra.
C9_Balanced ==
    SplitReturned =>
        LET k == Len(byte_ranges)
            n == Len(sync_positions)
        IN  \A i \in 1..k : SyncsIn(i) = (n \div k) + (IF i <= n % k THEN 1 ELSE 0)

\* C9 witness: a split with a remainder, so some ranges hold one sync more.
C9_Witness ==
    /\ SplitReturned
    /\ Len(byte_ranges) >= 2
    /\ Len(sync_positions) % Len(byte_ranges) # 0
    /\ SyncsIn(1) = SyncsIn(Len(byte_ranges)) + 1

\* C10: with a non-empty list of valid syncs every range starts at a valid
\* sync, and the first range starts at the first valid sync.
C10_StartsAtSyncs ==
    (SplitReturned /\ sync_positions # <<>>) =>
        /\ \A i \in 1..Len(byte_ranges) :
              \E j \in 1..Len(sync_positions) : byte_ranges[i][1] = sync_positions[j]
        /\ byte_ranges[1][1] = sync_positions[1]

\* C10 witness: several ranges, and the first valid sync is not offset 0.
C10_Witness ==
    /\ SplitReturned
    /\ Len(byte_ranges) >= 2
    /\ sync_positions[1] > 0

\* C11: with an empty list of valid syncs split_ranges returns the single
\* range (0, file_size), whatever num_parts is, so that the whole file is
\* still decoded once.
C11_Fallback ==
    (SplitReturned /\ sync_positions = <<>>) =>
        byte_ranges = <<(<<0, file_size_bytes>>)>>

\* C11 witness: the call has returned for an empty list of syncs and a
\* num_parts of two or more.
C11_Witness ==
    /\ SplitReturned
    /\ sync_positions = <<>>
    /\ num_workers >= 2
    /\ Len(byte_ranges) = 1

\* --------------------------------------------------------- the run (Spec)
Msgs(out) == [i \in 1..Len(out) |-> out[i].msg]

BagOfSeq(q) ==
    [x \in {q[i] : i \in 1..Len(q)} |-> Cardinality({i \in 1..Len(q) : q[i] = x})]

\* the registry of discovery with compiled layouts, as a decode needs it
DecodeRegistry == BuildStructObjects(fmt_definitions)

\* one single-worker decode of the range (0, file_size)
SingleDecode ==
    ParseMessagesInRange(NewParser(DecodeRegistry, TRUE), log, 0, Len(log),
                         message_filter)

RunEnded == phase \in {"Done", "Failed"}

\* C1: for every well-formed log and every W >= 1, the multiset of messages
\* returned by run equals the multiset emitted by one single-worker decode
\* of (0, file_size).
C1_Coverage ==
    (RunEnded /\ WellFormed(chunks)) =>
        /\ phase = "Done"
        /\ BagOfSeq(Msgs(all_decoded_messages)) = BagOfSeq(Msgs(SingleDecode.out))

\* the key of the claimed order: TimeUS, or 0 for a message without it
TimeUSOrZero(m) == IF KeyTimeUS \in DOMAIN m THEN m[KeyTimeUS].val ELSE <<0, 0>>

\* C2: the sequence returned by run is monotonically non-decreasing in
\* TimeUS, a message lacking TimeUS counting as TimeUS = 0, for every log,
\* worker count and execution mode.
C2_Ordering ==
    phase = "Done" =>
        \A i \in 1..(Len(all_decoded_messages) - 1) :
            KeyLeq(TimeUSOrZero(all_decoded_messages[i].msg),
                   TimeUSOrZero(all_decoded_messages[i + 1].msg))

\* C2 witness: run returned a message of TimeUS = 1 behind a message decoded
\* from a later frame of the file (the sort moved it), and a message without
\* TimeUS is part of the result.
C2_Witness ==
    /\ phase = "Done"
    /\ \E i, j, n \in 1..Len(all_decoded_messages) :
          /\ i < j
          /\ all_decoded_messages[i].off > all_decoded_messages[j].off
          /\ TimeUSOrZero(all_decoded_messages[j].msg) = <<0, 1>>
          /\ KeyTimeUS \notin DOMAIN all_decoded_messages[n].msg

\* C3: in the sequence returned by run, two messages with equal TimeUS stand
\* in increasing byte-offset order of their frames, in both execution modes
\* and whatever the order in which the workers finish.
C3_StableAcrossSegments ==
    phase = "Done" =>
        \A i, j \in 1..Len(all_decoded_messages) :
            (i < j /\ TimeUSOrZero(all_decoded_messages[i].msg)
                        = TimeUSOrZero(all_decoded_messages[j].msg))
                => all_decoded_messages[i].off < all_decoded_messages[j].off

\* the output of run with W = 1 in process mode: one range, one worker
ReferenceRun ==
    LET ranges == split_ranges(sync_positions, 1, Len(log))
        r == ParseBinSegment(log, DecodeRegistry, ranges[1][1], ranges[1][2],
                             message_filter)
    IN  [error |-> r.error, out |-> SortByTimeUS(r.decoded_messages)]

\* C4: for the same log the outputs of run with W = 1 and W > 1, in process
\* mode and in thread mode, are equal as ordered sequences, whatever the
\* scheduling of the workers.
C4_ParallelEquivalence ==
    (phase = "Done" /\ ReferenceRun.error = "none") =>
        Msgs(all_decoded_messages) = Msgs(ReferenceRun.out)

\* C5: without warning collection (how the coordinator builds every parser)
\* a warning condition met during FMT discovery or segment decoding is
\* discarded and the operation goes on to a normal result instead of raising.
C5_NoWarningIsFatal ==
    /\ error = "none"
    /\ \A i \in 1..Len(wstate) : wstate[i] # "failed"

\* the registry the workers of this run decode against
WorkerRegistry ==
    IF running_mode = "process" THEN SHARED_FMT_DEFINITIONS ELSE fmt_definitions

\* the offsets of the log at which a frame with type id 0x80 stands
FmtFrameOffsets == {p \in 0..(Len(log) - 3) : MatchAt(log, FMT_HEADER, p)}

\* C6: a frame with type id 0x80 is skipped by 89 bytes and never emitted,
\* also when the registry holds a descriptor for id 0x80, and no message in
\* the output of run has message_type "FMT".
C6_NoFmtLeakage ==
    /\ \A p \in FmtFrameOffsets : \A i \in 1..Len(wstate) :
          LET end == byte_ranges[i][2]
              st == ParseStart(NewParser(WorkerRegistry, TRUE), p)
              nx == ParseIter(st, log, end, message_filter)
          IN  FindNextMessage(log, p, end) = p =>
                  /\ nx.position = p + FMT_MESSAGE_LENGTH
                  /\ nx.out = <<>>
                  /\ nx.parser = st.parser
                  /\ ~nx.done
    /\ \A f \in DOMAIN tmp_files : \A n \in 1..Len(tmp_files[f]) :
          /\ tmp_files[f][n].msg[KeyMessageType] # StrVal(NameFMT)
          /\ ByteAt(log, tmp_files[f][n].off + 2) # FMT_TYPE_ID
    /\ \A n \in 1..Len(all_decoded_messages) :
          /\ all_decoded_messages[n].msg[KeyMessageType] # StrVal(NameFMT)
          /\ ByteAt(log, all_decoded_messages[n].off + 2) # FMT_TYPE_ID

\* C6 witness: run returned messages decoded from ranges that held FMT
\* frames, with a descriptor for id 0x80 in the registry.
C6_Witness ==
    /\ phase = "Done"
    /\ FMT_TYPE_ID \in DOMAIN fmt_definitions
    /\ all_decoded_messages # <<>>
    /\ \E i \in 1..Len(byte_ranges) : \E p \in FmtFrameOffsets :
          byte_ranges[i][1] <= p /\ p + FMT_MESSAGE_LENGTH < byte_ranges[i][2]

\* offset off lies in planned range i
InRange(off, i) == byte_ranges[i][1] <= off /\ off < byte_ranges[i][2]

\* C12: the start offset of every message a worker emitted lies in that
\* worker's own range and in no other planned range, and in the result of a
\* run no frame offset occurs twice.
C12_NoDuplication ==
    /\ \A f \in DOMAIN tmp_files : \A n \in 1..Len(tmp_files[f]) :
          /\ InRange(tmp_files[f][n].off, f)
          /\ \A j \in 1..Len(byte_ranges) : j # f => ~InRange(tmp_files[f][n].off, j)
    /\ phase = "Done" =>
          \A i, j \in 1..Len(all_decoded_messages) :
              i # j => all_decoded_messages[i].off # all_decoded_messages[j].off

\* C12 witness: run returned messages that workers of two different ranges
\* decoded.
C12_Witness ==
    /\ phase = "Done"
    /\ \E i, j \in 1..Len(all_decoded_messages) : \E a, b \in 1..Len(byte_ranges) :
          /\ a # b
          /\ InRange(all_decoded_messages[i].off, a)
          /\ InRange(all_decoded_messages[j].off, b)

\* ------------------------------------- the parser on its own (SpecParser)
\* the registry of the parser under test
ScanRegistry == scan.parser.fmt_definitions

\* the offsets of the log at which the two sync bytes stand
SyncOffsets == {p \in 0..(Len(log) - 2) : MatchAt(log, SYNC_MARKER, p)}

\* the loop, standing at p, takes the unknown-id branch: a sync at p inside
\* the range, an id other than 0x80 that the registry lacks or has no
\* compiled layout for
UnknownAt(p) ==
    /\ FindNextMessage(log, p, ScanEnd) = p
    /\ ~IsFmtFrame(ByteAt(log, p + 2))
    /\ \/ ByteAt(log, p + 2) \notin DOMAIN ScanRegistry
       \/ ~ScanRegistry[ByteAt(log, p + 2)].struct_obj

CountKind(ws, kind) == Cardinality({i \in 1..Len(ws) : ws[i].kind = kind})

\* every declaration of the registry has Length = payload size + 3
ConsistentRegistry == ValidateFmtDefinitions(ScanRegistry) = {}

\* the log without its stray bytes, and the decode of the same range of it
\* (the range ends as many bytes earlier as were taken out)
CleanChunks == SelectSeq(chunks, LAMBDA k : k \in ValidKinds)
CleanLog == LogWith(SubSeq(log, 1, Len(LogPrefix)), CleanChunks)
CleanDecode ==
    ParseMessagesInRange(NewParser(ScanRegistry, TRUE), CleanLog, 0,
                         ScanEnd - (Len(log) - Len(CleanLog)), message_filter)

\* stray bytes of kind j stand in front of a frame of the log
JunkBeforeFrame(j) == \E k \in 1..(Len(chunks) - 1) : chunks[k] = j

\* C13: standing on a sync whose id is not in the registry, or has no
\* compiled layout, the decoder records exactly one warning for that offset
\* and moves on by exactly one byte; so the bytes A3 95 <unknown id> put
\* between two valid frames leave the decoded messages as they were and add
\* exactly one unknown-id warning.
C13_UnknownIdResync ==
    /\ \A p \in SyncOffsets :
          UnknownAt(p) =>
              LET st == [scan EXCEPT !.position = p, !.done = FALSE]
                  nx == ParseIter(st, log, ScanEnd, message_filter)
              IN  /\ nx.position = p + 1
                  /\ nx.parser.warnings =
                        Append(st.parser.warnings, [kind |-> "UnknownId", off |-> p])
                  /\ nx.parser.fmt_definitions = ScanRegistry
                  /\ nx.out = st.out
                  /\ ~nx.done
    /\ (phase = "Parsed" /\ JunkBeforeFrame("J") /\ ConsistentRegistry) =>
          /\ Msgs(all_decoded_messages) = Msgs(CleanDecode.out)
          /\ CountKind(scan.parser.warnings, "UnknownId")
                = CountKind(CleanDecode.parser.warnings, "UnknownId") + 1
          /\ Len(scan.parser.warnings) = Len(CleanDecode.parser.warnings) + 1

\* C13 witness: a decode with compiled layouts has ended on a log with the
\* stray bytes between two data frames; both frames were decoded and the one
\* warning names the offset of the stray bytes.
C13_Witness ==
    /\ phase = "Parsed"
    /\ Len(chunks) = 3
    /\ chunks[2] = "J"
    /\ Len(all_decoded_messages) = 2
    /\ \E p \in SyncOffsets :
          /\ ByteAt(log, p + 2) = 126
          /\ scan.parser.warnings = <<[kind |-> "UnknownId", off |-> p]>>
          /\ all_decoded_messages[1].off < p
          /\ p < all_decoded_messages[2].off

\* C14: when the payload of a known frame would end past the end of the
\* segment, the decoder records a truncation warning and the segment ends
\* there: no message is emitted and no warning recorded after it, and the
\* next iteration leaves the loop, for every registry, also one whose
\* message_length differs from payload size + 3.
C14_TruncationTerminates ==
    phase \in {"Parsing", "Parsed"} =>
        \A i \in 1..Len(scan.parser.warnings) :
            scan.parser.warnings[i].kind = "Truncated" =>
                /\ i = Len(scan.parser.warnings)
                /\ \A n \in 1..Len(scan.out) :
                      scan.out[n].off < scan.parser.warnings[i].off
                /\ ~scan.done =>
                      LET nx == ParseIter(scan, log, ScanEnd, message_filter)
                      IN  /\ nx.done
                          /\ nx.out = scan.out
                          /\ nx.parser.warnings = scan.parser.warnings

\* the decode of the same range by the same parser without a filter
UnfilteredDecode ==
    ParseMessagesInRange(NewParser(ScanRegistry, TRUE), log, 0, ScanEnd, NoFilter)

\* C15: with a name filter F present, parse_messages_in_range emits exactly
\* the messages of the unfiltered decode of the same range whose message_type
\* is in F, in the same order; a filter that names no declared type gives an
\* empty output.
C15_NameFilter ==
    (phase = "Parsed" /\ message_filter.present) =>
        all_decoded_messages =
            SelectSeq(UnfilteredDecode.out,
                      LAMBDA e : e.msg[KeyMessageType].val \in message_filter.names)

\* C16: a second FMT discovery over the same bytes leaves the registry
\* identical to the one the first discovery produced, also when the compiled
\* layouts were attached to the descriptors between the two.
C16_FmtIdempotence ==
    phase \in {"Reloaded", "ReloadedAfterBuild"} => ScanRegistry = SHARED_FMT_DEFINITIONS

\* C16 witness: the second discovery has run on a parser whose layouts had
\* been built after the first, and the registry holds the three declarations.
C16_Witness ==
    /\ phase = "ReloadedAfterBuild"
    /\ DOMAIN ScanRegistry = {128, 200, 201}
    /\ ScanRegistry = SHARED_FMT_DEFINITIONS

\* the offset at which chunk k of the log starts
RECURSIVE ChunkOffset(_)
ChunkOffset(k) ==
    IF k = 1 THEN Len(LogPrefix) ELSE ChunkOffset(k - 1) + Len(ChunkBytes(chunks[k - 1]))

\* the messages of out whose frames start at or behind offset from
Downstream(out, from) == SelectSeq(out, LAMBDA e : e.off >= from)

\* C17: stray bytes put immediately in front of the sync marker of a valid
\* frame neither raise nor lower the number of messages decoded from the
\* frames behind them: it is the number the log without the stray bytes
\* gives for the same frames.
C17_ResyncRobust ==
    (phase = "Parsed" /\ ConsistentRegistry) =>
        \A k \in 1..(Len(chunks) - 1) :
            chunks[k] \in JunkKinds =>
                Len(Downstream(all_decoded_messages,
                               ChunkOffset(k) + Len(ChunkBytes(chunks[k]))))
                    = Len(Downstream(CleanDecode.out, ChunkOffset(k)))

\* ------------------------------------------------ the run again (Spec)
SomeWorkerFailed == \E i \in 1..Len(wstate) : wstate[i] = "failed"

\* C18: a failure of any worker is fatal in both modes: the run ends with an
\* error and returns no messages, and the coordinator is in Merging or Done
\* only with the result of every range.
C18_WorkerFailureFatal ==
    /\ phase \in {"Merging", "Done"} =>
          /\ \A i \in 1..Len(wstate) : wstate[i] = "done"
          /\ Len(temporary_file_paths) = Len(byte_ranges)
          /\ {temporary_file_paths[n] : n \in 1..Len(temporary_file_paths)}
                = 1..Len(byte_ranges)
    /\ (RunEnded /\ SomeWorkerFailed) =>
          /\ phase = "Failed"
          /\ error # "none"
          /\ all_decoded_messages = <<>>

\* C18 witness: the run has failed although one worker failed only and
\* another had finished its range and saved its messages.
C18_Witness ==
    /\ phase = "Failed"
    /\ SomeWorkerFailed
    /\ \E i \in 1..Len(wstate) : wstate[i] = "done" /\ i \in DOMAIN tmp_files

\* C19: when run has returned or raised, every temporary file a worker
\* created during the run has been removed, also when the run was aborted
\* because another worker failed.
C19_TempCleanup == RunEnded => DOMAIN tmp_files = {}

\* the registry FMT discovery produces for the log
DiscoveredRegistry == PreloadFmtMessages(NewParser(EmptyRegistry, FALSE), log).fmt_definitions

\* C20: once discovery has completed, no later step of the run (planning,
\* dispatch, worker initialisation, decoding) changes the registry discovery
\* produced, in either mode: process workers use a copy and threads only
\* read the shared one.
C20_RegistryImmutable ==
    phase \in {"Planning", "Dispatched", "Merging", "Done"} =>
        fmt_definitions = DiscoveredRegistry

\* ------------------------------- the discovery on its own (SpecDiscover)
\* the FMT candidates the scan has handed to _parse_fmt_message: those yielded
\* so far while it runs, all of them afterwards
Scanned ==
    IF phase \in {"Constructed", "Scanning"}
    THEN {scan.out[i] : i \in 1..Len(scan.out)}
    ELSE {find_fmt_offsets(log)[i] : i \in 1..Len(find_fmt_offsets(log))}

\* the candidate at offset o, parsed on its own by a parser that knows nothing
RecordAt(o) == ParseFmtMessage(NewParser(EmptyRegistry, TRUE), log, o)
\* the candidate at o is accepted, and declares type id
AcceptedFor(o, id) == RecordAt(o).ok /\ ByteAt(log, o + 3) = id
AcceptedOffsets(id) == {o \in Scanned : AcceptedFor(o, id)}
DeclaredIds == {ByteAt(log, o + 3) : o \in {q \in Scanned : RecordAt(q).ok}}

\* the registry as discovery leaves it: no layout has been compiled into it
AfterDiscovery == phase \in {"Scanning", "Loaded", "Planned"}

\* C21: last FMT wins.  During and after discovery the registry holds an entry
\* for exactly the type ids that an accepted FMT record among those scanned
\* declares, and the entry of an id is the descriptor of the accepted record
\* with the greatest offset among them; there is one entry per id.
C21_LastFmtWins ==
    AfterDiscovery =>
        /\ DOMAIN ScanRegistry = DeclaredIds
        /\ \A id \in DeclaredIds :
              LET last == CHOOSE o \in AcceptedOffsets(id) :
                              \A q \in AcceptedOffsets(id) : q <= o
              IN  ScanRegistry[id] = RecordAt(last).parser.fmt_definitions[id]

\* discovery has ended over a log in which two accepted records declare one
\* id with different descriptors, and the registry holds the later one
C21_Witness ==
    /\ phase = "Loaded"
    /\ \E id \in DeclaredIds : \E o1, o2 \in AcceptedOffsets(id) :
          /\ o1 < o2
          /\ RecordAt(o1).parser.fmt_definitions[id] # RecordAt(o2).parser.fmt_definitions[id]
          /\ ScanRegistry[id] = RecordAt(o2).parser.fmt_definitions[id]

\* the candidate at o has its type byte inside the file and a name that fails
\* the [A-Za-z0-9]+ check
NameRejected(o) ==
    /\ o + 3 < Len(log)
    /\ ~NameMatches(StripNul(DecodeAsciiIgnore(Slice(log, o + 5, o + 9))))

WarningsAt(o) == {i \in 1..Len(scan.parser.warnings) : scan.parser.warnings[i].off = o}

\* C22: an FMT candidate whose name fails the check is skipped with a warning:
\* it leaves no entry in the registry, exactly one warning is recorded for its
\* offset, and the candidates behind it are scanned.
C22_BadNameSkippedWithWarning ==
    AfterDiscovery =>
        \A o \in Scanned : NameRejected(o) =>
            /\ ~RecordAt(o).ok
            /\ Cardinality(WarningsAt(o)) = 1
            /\ phase # "Scanning" =>
                  \A q \in (o + FMT_MESSAGE_LENGTH)..(Len(log) - 3) :
                      MatchAt(log, FMT_HEADER, q) =>
                          \E c \in Scanned : c <= q /\ q < c + FMT_MESSAGE_LENGTH

\* the offsets of the file at which the two sync bytes stand, the byte behind
\* them is a type id of the registry, and the declared length fits in the file
FittingSyncs ==
    {p \in 0..(Len(log) - 3) :
        /\ MatchAt(log, SYNC_MARKER, p)
        /\ ByteAt(log, p + 2) \in DOMAIN ScanRegistry
        /\ p + ScanRegistry[ByteAt(log, p + 2)].message_length <= Len(log)}

\* C24: find_valid_sync_positions returns, in strictly increasing order and
\* without duplicates, exactly the offsets at which the sync bytes occur, the
\* byte at p+2 is a type id of the registry and p + message_length <=
\* file_size, declared lengths of 3 or less included.
C24_ValidSyncsExact ==
    phase = "Planned" =>
        /\ \A i \in 1..(Len(sync_positions) - 1) : sync_positions[i] < sync_positions[i + 1]
        /\ {sync_positions[i] : i \in 1..Len(sync_positions)} = FittingSyncs

\* C25: find_next_message(start, limit) is absent only when no sync offset p
\* in [start, limit) has p + 3 <= limit; a sync with exactly 3 bytes left
\* before the limit is returned.  (The decode loop ends exactly when
\* find_next_message is absent from the position it stands at.)
C25_FindNextMessage ==
    (phase = "Parsing" /\ scan.done) =>
        ~\E p \in scan.position..(ScanEnd - 3) : MatchAt(log, SYNC_MARKER, p)

\* C26: forward progress.  Every iteration of the loop of
\* parse_messages_in_range that does not end the loop leaves the scan position
\* strictly greater than it found it, for every byte content and every
\* registry accepted by discovery, a declared message_length of 0 included.
C26_ForwardProgress ==
    [][(phase' = "Parsing" /\ scan' # scan /\ ~scan'.done)
          => scan'.position > scan.position]_vars

\* C27: the start offsets of the successive messages that one
\* parse_messages_in_range yields are strictly increasing: no frame is
\* emitted twice by one decode.
C27_EmittedInOffsetOrder ==
    phase \in {"Parsing", "Parsed", "Raised"} =>
        \A i \in 1..(Len(scan.out) - 1) : scan.out[i].off < scan.out[i + 1].off

\* the offsets _find_fmt_offsets has yielded, in the order of the yields, and
\* the position up to which it has searched
Yielded == IF phase = "Scanning" THEN scan.out ELSE find_fmt_offsets(log)
Searched == IF phase = "Scanning" THEN MinOf(scan.position, Len(log)) ELSE Len(log)

\* C29: the FMT scan yields offsets in strictly increasing order, each holding
\* the bytes A3 95 80, any two of them at least 89 bytes apart, and it yields
\* every occurrence of A3 95 80 that does not lie within the 89 bytes
\* following an offset yielded before.
C29_FmtScan ==
    AfterDiscovery =>
        /\ \A i \in 1..Len(Yielded) : MatchAt(log, FMT_HEADER, Yielded[i])
        /\ \A i \in 1..(Len(Yielded) - 1) :
              Yielded[i] + FMT_MESSAGE_LENGTH <= Yielded[i + 1]
        /\ \A q \in 0..(Searched - 3) : MatchAt(log, FMT_HEADER, q) =>
              \E i \in 1..Len(Yielded) :
                  \/ Yielded[i] = q
                  \/ Yielded[i] < q /\ q < Yielded[i] + FMT_MESSAGE_LENGTH

\* C29 witness: the scan has ended with several offsets yielded over a log
\* that holds A3 95 80 inside a yielded record as well
C29_Witness ==
    /\ phase = "Loaded"
    /\ Len(Yielded) > 1
    /\ \E q \in 0..(Len(log) - 3) :
          /\ MatchAt(log, FMT_HEADER, q)
          /\ \A i \in 1..Len(Yielded) : Yielded[i] # q

\* the descriptor of the frame at sync offset o, and the values its payload
\* unpacks to
DescriptorAt(o) == ScanRegistry[ByteAt(log, o + 2)]
ValuesAt(o) == UnpackValues(DescriptorAt(o).struct_fmt, log, o + 3)
\* a frame of a declared type at o whose payload lies in the file and unpacks
\* to a number of values other than the number of declared field names
MismatchAt(o) ==
    /\ o + 2 < Len(log)
    /\ ByteAt(log, o + 2) \in DOMAIN ScanRegistry
    /\ o + 3 + DescriptorAt(o).struct_size <= Len(log)
    /\ Len(DescriptorAt(o).struct_fmt) # Len(DescriptorAt(o).field_names)

EmittedAt(o) == {i \in 1..Len(scan.out) : scan.out[i].off = o}
FieldCountWarningsAt(o) ==
    {i \in WarningsAt(o) : scan.parser.warnings[i].kind = "FieldCount"}

\* C30: when the number of decoded values differs from the number of declared
\* field names, the decoder records one warning for the frame and still emits
\* its message, whose fields are the first min(#names, #values) names paired
\* in order with the first values, plus message_type; a frame without the
\* mismatch gets no such warning.
C30_FieldCountMismatch ==
    phase \in {"Parsing", "Parsed"} =>
        /\ \A o \in SyncOffsets :
              Cardinality(FieldCountWarningsAt(o))
                  = IF MismatchAt(o) THEN Cardinality(EmittedAt(o)) ELSE 0
        /\ \A i \in 1..Len(scan.out) : MismatchAt(scan.out[i].off) =>
              LET o == scan.out[i].off
                  names == DescriptorAt(o).field_names
                  n == MinOf(Len(names), Len(ValuesAt(o)))
                  msg == scan.out[i].msg
              IN  /\ DOMAIN msg = {names[k] : k \in 1..n} \cup {KeyMessageType}
                  /\ \A k \in 1..n : msg[names[k]] = ValuesAt(o)[k]
                  /\ msg[KeyMessageType] = StrVal(DescriptorAt(o).name)

\* the decode has emitted the message of a frame at which values and names
\* differ by diff (values minus names), with the warning recorded
EmittedWithMismatch(diff) ==
    \E i \in 1..Len(scan.out) :
        /\ MismatchAt(scan.out[i].off)
        /\ FieldCountWarningsAt(scan.out[i].off) # {}
        /\ Len(ValuesAt(scan.out[i].off))
              = Len(DescriptorAt(scan.out[i].off).field_names) + diff

\* C30 witness: a decode has ended after emitting a message with one value
\* more than names
C30_Witness == phase = "Parsed" /\ EmittedWithMismatch(1)

\* ------------------------------------------------ the seams of a run (Spec)
\* The offsets at which the loop of parse_messages_in_range, run over the
\* whole file, stands on a frame: an FMT record or a frame of a declared type.
RECURSIVE FrameStartsFrom(_, _, _)
FrameStartsFrom(buf, reg, position) ==
    LET next_message_offset == FindNextMessage(buf, position, Len(buf))
    IN  IF next_message_offset = -1 THEN {}
        ELSE LET message_id == ByteAt(buf, next_message_offset + 2)
             IN  IF IsFmtFrame(message_id)
                 THEN {next_message_offset}
                      \cup FrameStartsFrom(buf, reg, next_message_offset + FMT_MESSAGE_LENGTH)
                 ELSE IF message_id \notin DOMAIN reg
                 THEN FrameStartsFrom(buf, reg, UnknownIdAdvance(next_message_offset))
                 ELSE {next_message_offset}
                      \cup FrameStartsFrom(buf, reg,
                               next_message_offset + reg[message_id].message_length)

GenuineStarts == FrameStartsFrom(log, fmt_definitions, 0)

\* C23: every segment start the planner chooses is a genuine message start:
\* an offset at which the sequential decode of the whole file begins a frame,
\* also when the payload of a frame holds the sync marker followed by a
\* declared type id.
C23_SeamAlignment ==
    \A i \in 1..Len(byte_ranges) : byte_ranges[i][1] \in GenuineStarts

\* the order of the phases of a run
PhaseSuccessor ==
    {<<"Idle", "Discovering">>, <<"Discovering", "Planning">>,
     <<"Planning", "Dispatched">>, <<"Dispatched", "Merging">>,
     <<"Merging", "Done">>}

\* every range has been dispatched and every dispatched worker has ended
EveryWorkerCompleted ==
    /\ Len(wstate) = Len(byte_ranges)
    /\ AllFinished

\* C28: a run passes through Idle, Discovering, Planning, Dispatched, Merging,
\* Done in that order, without skipping a phase or going back (an error ends
\* it in Failed instead), and it is in Merging or beyond only after every
\* dispatched worker has completed, in both execution modes.
C28_PhaseOrderAndBarrier ==
    /\ [](phase \in {"Merging", "Done"} => EveryWorkerCompleted)
    /\ [][phase' # phase =>
            /\ <<phase, phase'>> \in PhaseSuccessor \/ phase' = "Failed"
            /\ phase' = "Merging" => EveryWorkerCompleted]_vars

\* C28 witness: a run in thread mode with several workers has reached Done
\* with every worker completed
C28_Witness ==
    /\ phase = "Done"
    /\ running_mode = "thread"
    /\ Len(wstate) > 1
    /\ EveryWorkerCompleted

\* ------------------------------------- the descriptors (SpecDiscover again)
\* the declared message_length of the descriptor is not its payload size + 3
LengthDisagrees(d) == d.struct_size + 3 # d.message_length

\* C31: every descriptor whose payload size + 3 differs from its declared
\* message_length, in either direction, is kept in the registry by discovery
\* and gets a warning from validation.
C31_LengthMismatchWarned ==
    phase = "Loaded" =>
        /\ DeclaredIds \subseteq DOMAIN ScanRegistry
        /\ \A id \in DOMAIN ScanRegistry :
              LengthDisagrees(ScanRegistry[id]) => id \in ValidateFmtDefinitions(ScanRegistry)

\* --------------------------------------------------- scaling (SpecScale)
\* the characters of the declared format that the alphabet knows, in order:
\* the i-th of them is the character the i-th value is decoded from
ValueChars == SelectSeq(chunks, LAMBDA c : ArduToStruct(c) # <<>>)

\* the offset of the payload at which the i-th value lies
RECURSIVE ValueOffset(_)
ValueOffset(i) ==
    IF i = 1 THEN ScaleFrameOffset + 3
    ELSE ValueOffset(i - 1) + CalcSize(ArduToStruct(ValueChars[i - 1]))

\* the i-th value as it is unpacked, and as scaled by the factor of its own
\* character
RawValue(i) == UnpackOne(ArduToStruct(ValueChars[i])[1], log, ValueOffset(i))
ScaledByOwnChar(i) ==
    IF HasScaleFactor(ValueChars[i])
    THEN [kind |-> "float", val |-> Append(RawValue(i).val, ValueChars[i])]
    ELSE RawValue(i)

\* C32: the scale factor applied to the i-th decoded value is the one
\* configured for the format character that value was decoded from, also
\* when the format holds characters unknown to the alphabet, which contribute
\* no bytes and no value.
C32_ScalingPairsOwnChar ==
    phase \in {"Parsing", "Parsed"} =>
        \A m \in 1..Len(scan.out) : \A i \in 1..Len(ValueChars) :
            scan.out[m].msg[<<96 + i>>] = ScaledByOwnChar(i)

\* ------------------------------------------ the warning list (SpecReuse)
IsPrefix(s1, s2) == Len(s1) <= Len(s2) /\ SubSeq(s2, 1, Len(s1)) = s1

\* C33: with collection enabled, every operation of a parser (discovery with
\* its validation, attaching layouts, every iteration of every range decode)
\* leaves the warnings recorded before as an unchanged prefix of the warning
\* list: none is removed, reordered or merged with an equal one.
C33_WarningsAppendOnly ==
    [][IsPrefix(scan.parser.warnings, scan'.parser.warnings)]_vars

\* C33 witness: a second decode has ended on a parser whose list holds the
\* same warning twice, once from each of two operations
C33_Witness ==
    /\ phase = "ParsedAgain"
    /\ \E i, j \in 1..Len(scan.parser.warnings) :
          i < j /\ scan.parser.warnings[i] = scan.parser.warnings[j]

\* ----------------------------------------------- validation (SpecValidate)
\* C34: validation leaves the registry exactly as it was, for every registry
\* content, descriptors whose format does not compile or whose sizes disagree
\* included.
C34_ValidationNonDestructive ==
    [][phase' = "Validated" => scan'.parser.fmt_definitions = scan.parser.fmt_definitions]_vars

\* C34 witness: validation has run over a registry that holds a descriptor
\* whose format does not compile and one whose sizes disagree, and has a
\* warning for both
C34_Witness ==
    /\ phase = "Validated"
    /\ \E i, j \in DOMAIN ScanRegistry :
          /\ ~Compiles(ScanRegistry[i].struct_fmt)
          /\ Compiles(ScanRegistry[j].struct_fmt)
          /\ LengthDisagrees(ScanRegistry[j])
          /\ {i, j} \subseteq ValidateFmtDefinitions(ScanRegistry)

\* ------------------------------------------- the dispatch (SpecFewSyncs)
\* what one decode of planned range i yields
RangeResult(i) ==
    ParseBinSegment(log, WorkerRegistry, byte_ranges[i][1], byte_ranges[i][2],
                    message_filter).decoded_messages

RECURSIVE ResultsUpTo(_)
ResultsUpTo(n) == IF n = 0 THEN <<>> ELSE ResultsUpTo(n - 1) \o RangeResult(n)

\* C35: every planned range is decoded by exactly one worker invocation and
\* exactly one result per range is merged into the output, in both execution
\* modes, also when there are fewer ranges than workers: one worker per range
\* is dispatched, a worker that has ended is not run again, the file of a
\* range holds the decode of that range, the merge is handed every range once,
\* and the output holds the messages of all ranges, each as often as the
\* decodes of the ranges yield it.
C35_ExactlyOnceDispatch ==
    /\ [](/\ Len(wstate) \in {0, Len(byte_ranges)}
          /\ \A f \in DOMAIN tmp_files :
                /\ f \in 1..Len(byte_ranges)
                /\ wstate[f] = "done"
                /\ tmp_files[f] = RangeResult(f)
          /\ phase \in {"Merging", "Done"} =>
                /\ Len(temporary_file_paths) = Len(byte_ranges)
                /\ \A i \in 1..Len(byte_ranges) :
                      \E n \in 1..Len(temporary_file_paths) : temporary_file_paths[n] = i
          /\ phase = "Done" =>
                BagOfSeq(all_decoded_messages) = BagOfSeq(ResultsUpTo(Len(byte_ranges))))
    /\ [][\A i \in 1..Len(wstate) :
            wstate[i] # "pending" => (Len(wstate') = Len(wstate) /\ wstate'[i] = wstate[i])]_vars

\* C35 witness: a run in thread mode with fewer ranges than workers has
\* returned the messages of several ranges
C35_Witness ==
    /\ phase = "Done"
    /\ running_mode = "thread"
    /\ Len(byte_ranges) < num_workers
    /\ \E i, j \in 1..Len(byte_ranges) :
          i # j /\ RangeResult(i) # <<>> /\ RangeResult(j) # <<>>

\* C36: a name filter that is present but empty retains no message type:
\* parse_messages_in_range with an empty filter set emits no message, while
\* the decode without a filter emits the messages of all types.
C36_EmptyFilterEmitsNothing ==
    /\ (phase \in {"Parsing", "Parsed"} /\ message_filter = FilterOf({})) => scan.out = <<>>
    /\ (phase = "Parsed" /\ message_filter = FilterOf({})) => all_decoded_messages = <<>>
    /\ (phase = "Parsed" /\ message_filter = NoFilter) => all_decoded_messages = UnfilteredDecode.out

============================================================================
